---- MODULE Spec2Model ----
(***************************************************************************)
(* Model of the 26x48 LAWO flip-dot panel codec (core.py) and of the       *)
(* calibration primitives built on it (calibrator/backend/segment_logic).  *)
(*                                                                         *)
(* Python lists and deques are TLA+ sequences (1-based: Python's x[i] is   *)
(* x[i+1] here), dicts are functions whose DOMAIN is the key set, and a    *)
(* (addr, type) key is the tuple <<addr, type>>.  The 26x48 matrix is a    *)
(* function over the 0-based row and column numbers of the source.         *)
(***************************************************************************)
EXTENDS Integers, Sequences, FiniteSets, TLC

VARIABLES
    ENABLE_HOLE_PIXEL, \* core.py feature flag (a build-time configuration)
    pc,                \* position of the caller in the pipeline it runs
    matrix,            \* logical matrix handed to build_bit_queues_from_matrix
    queues,            \* queue map handed to build_column_payloads
    payloads,          \* list of payloads returned by build_column_payloads
    bit_queues,        \* queue map handed to fill_matrix_from_segments
    filled,            \* what fill_matrix_from_segments returned / left behind
    requeued,          \* build_bit_queues_from_matrix of a decoded matrix
    pixel,             \* calibration request (segment_name, seg_row, seg_col)
    calib,             \* results of the calibration calls for that request
    in_lines,          \* parsed input lines handed to extract_frames_and_payloads
    in_frames,         \* the 0xA5 frames extract_frames_and_payloads found
    queues_frames,     \* build_addr_type_bit_queues_from_frames(frames)
    queues_payloads,   \* build_addr_type_bit_queues_from_payloads(payloads)
    in_bits,           \* bit list handed to bits_to_data_bytes
    out_bytes,         \* bytes returned by bits_to_data_bytes / reverse_byte
    window,            \* the calibrator's MainWindow object
    transport,         \* the calibrator's Transport object and the bus behind it
    call_in,           \* argument of a stand-alone helper call
    call_out           \* what that call returned

vars == << ENABLE_HOLE_PIXEL, pc, matrix, queues, payloads, bit_queues,
           filled, requeued, pixel, calib,
           in_lines, in_frames, queues_frames, queues_payloads, in_bits, out_bytes,
           window, transport, call_in, call_out >>

\* Variables of the pipeline, of the calibrator and of the byte-level calls.
pipeline_vars == << matrix, queues, payloads, bit_queues, filled, requeued >>
calib_vars == << pixel, calib >>
batch_vars == << in_lines, in_frames, queues_frames, queues_payloads >>
byte_vars == << in_bits, out_bytes >>
app_vars == << window, transport >>
call_vars == << call_in, call_out >>

-----------------------------------------------------------------------------
(* Panel geometry and pixel types                                          *)

MATRIX_ROWS == 26
MATRIX_COLS == 48
TYPE_90 == 144
TYPE_10 == 16

\* Python's None where the source returns or stores it.
None == -1

SEGMENTS ==
    << [name |-> "top-left",     row_start |-> 0,  row_end |-> 13,
        col_start |-> 0,  col_end |-> 24, addr_90 |-> 7, addr_10 |-> 3],
       [name |-> "top-right",    row_start |-> 0,  row_end |-> 13,
        col_start |-> 24, col_end |-> 48, addr_90 |-> 8, addr_10 |-> 4],
       [name |-> "bottom-left",  row_start |-> 13, row_end |-> 26,
        col_start |-> 0,  col_end |-> 24, addr_90 |-> 6, addr_10 |-> 2],
       [name |-> "bottom-right", row_start |-> 13, row_end |-> 26,
        col_start |-> 24, col_end |-> 48, addr_90 |-> 5, addr_10 |-> 1] >>

\* Python's range(start, stop) and range(start, stop, -1) as sequences.
RangeUp(start, stop) ==
    [i \in 1..(IF stop > start THEN stop - start ELSE 0) |-> start + i - 1]

RangeDown(start, stop) ==
    [i \in 1..(IF start > stop THEN start - stop ELSE 0) |-> start - i + 1]

\* Body(v) with v bound to the value of e, computed once.
Let(e, Body(_)) == CHOOSE r \in { Body(v) : v \in {e} } : TRUE

\* A Python for-loop over seq[i..] that updates one value: acc = Op(acc, x).
RECURSIVE FoldFrom(_, _, _, _)
FoldFrom(Op(_, _), acc, seq, i) ==
    IF i > Len(seq) THEN acc
    ELSE Let(Op(acc, seq[i]), LAMBDA v : FoldFrom(Op, v, seq, i + 1))

\* for x in seq: acc = Op(acc, x)
FoldLeft(Op(_, _), acc, seq) ==
    Let(seq, LAMBDA s : Let(acc, LAMBDA a : FoldFrom(Op, a, s, 1)))

Min(a, b) == IF a < b THEN a ELSE b

\* Python's s[lo:hi] for 0 <= lo, 0 <= hi.
Slice(s, lo, hi) == SubSeq(s, lo + 1, Min(hi, Len(s)))

\* Python's [x] * n
Repeat(x, n) == [i \in 1..n |-> x]

\* Python's range(0, stop, step), step > 0
RangeStep(stop, step) == [i \in 1..((stop + step - 1) \div step) |-> (i - 1) * step]

\* reverse_byte: rb = (rb << 1) | ((b >> i) & 1) for i in 0..7, then & 0xFF.
RECURSIVE reverse_byte_loop(_, _, _)
reverse_byte_loop(b, i, rb) ==
    IF i = 8 THEN rb
    ELSE reverse_byte_loop(b, i + 1, (rb * 2) + ((b \div (2 ^ i)) % 2))

\* Variant: the loop runs over range(7) and leaves the top bit out.
reverse_byte_range7(b) == reverse_byte_loop(b % 128, 0, 0) \div 2

reverse_byte(b) == reverse_byte_loop(b, 0, 0) % 256

\* Variant: the last row is not special-cased and alternates by row too.
logical_type_by_row_only(seg_row, seg_col) ==
    IF ENABLE_HOLE_PIXEL /\ seg_row = 12 /\ seg_col = 23 THEN None
    ELSE IF seg_row % 2 = 0 THEN TYPE_90 ELSE TYPE_10

logical_type_for_segment_pixel(seg_row, seg_col) ==
    IF ENABLE_HOLE_PIXEL /\ seg_row = 12 /\ seg_col = 23 THEN None
    ELSE IF seg_row < 12
         THEN (IF seg_row % 2 = 0 THEN TYPE_90 ELSE TYPE_10)
         ELSE (IF seg_col % 2 = 0 THEN TYPE_90 ELSE TYPE_10)

-----------------------------------------------------------------------------
(* Dict helpers                                                            *)

EmptyDict == [k \in {} |-> <<>>]

\* The dict d after d[key] = value (key new or not).
DictPut(d, key, value) ==
    [k \in (DOMAIN d) \cup {key} |-> IF k = key THEN value ELSE d[k]]

-----------------------------------------------------------------------------
(* Encoding: logical matrix -> (addr, type) bit queues                     *)

build_row_range(seg) ==
    IF seg.row_start = 0
    THEN RangeUp(seg.row_start, seg.row_end)
    ELSE RangeDown(seg.row_end - 1, seg.row_start - 1)

\* Variant: the encoder scans the columns of every segment left to right.
build_col_range_ascending(seg) == RangeUp(seg.col_start, seg.col_end)

build_col_range(seg) ==
    IF seg.row_start = 0
    THEN RangeUp(seg.col_start, seg.col_end)
    ELSE RangeDown(seg.col_end - 1, seg.col_start - 1)

\* Body of the inner loop of build_bit_queues_from_matrix for one cell:
\* the queue map after the cell (row, col) of segment seg has been visited.
\* Variant: the HOLE cell is not skipped and its bit joins the T10 queue.
build_cell_keeping_hole(m, seg, row, col, qs) ==
    LET seg_row == row - seg.row_start
        seg_col == col - seg.col_start
        ptype   == logical_type_for_segment_pixel(seg_row, seg_col)
        bit     == m[row][col]
        key     == IF ptype = TYPE_90 THEN <<seg.addr_90, TYPE_90>>
                                      ELSE <<seg.addr_10, TYPE_10>>
    IN  IF key \in DOMAIN qs
        THEN [qs EXCEPT ![key] = Append(@, bit)]
        ELSE DictPut(qs, key, <<bit>>)

build_cell(m, seg, row, col, qs) ==
    LET seg_row == row - seg.row_start
        seg_col == col - seg.col_start
        ptype   == logical_type_for_segment_pixel(seg_row, seg_col)
        bit     == m[row][col]
        addr    == IF ptype = TYPE_90 THEN seg.addr_90 ELSE seg.addr_10
        key     == <<addr, ptype>>
    IN  IF ptype = None THEN qs
        ELSE IF key \in DOMAIN qs
             THEN [qs EXCEPT ![key] = Append(@, bit)]
             ELSE DictPut(qs, key, <<bit>>)

\* for seg in SEGMENTS: for row in row_range: for col in col_range: ...
build_bit_queues_from_matrix(m) ==
    FoldLeft(LAMBDA qs1, seg :
        FoldLeft(LAMBDA qs2, row :
            FoldLeft(LAMBDA qs3, col : build_cell(m, seg, row, col, qs3),
                     qs2, build_col_range(seg)),
            qs1, build_row_range(seg)),
        EmptyDict, SEGMENTS)

\* bits_to_data_bytes: 8 bits -> one byte, first bit as MSB, then reversed.
\* Variant: the byte is appended as built, without reverse_byte.
bits_to_data_bytes_unreversed(bits) ==
    FoldLeft(LAMBDA result, i :
        LET chunk0 == Slice(bits, i, i + 8)
            chunk  == IF Len(chunk0) < 8
                      THEN chunk0 \o Repeat(0, 8 - Len(chunk0))
                      ELSE chunk0
            b_rev  == FoldLeft(LAMBDA acc, bit : (acc * 2) + (bit % 2), 0, chunk)
        IN  Append(result, b_rev),
        <<>>, RangeStep(Len(bits), 8))

bits_to_data_bytes(bits) ==
    FoldLeft(LAMBDA result, i :
        LET chunk0 == Slice(bits, i, i + 8)
            chunk  == IF Len(chunk0) < 8
                      THEN chunk0 \o Repeat(0, 8 - Len(chunk0))
                      ELSE chunk0
            b_rev  == FoldLeft(LAMBDA acc, bit : (acc * 2) + (bit % 2), 0, chunk)
        IN  Append(result, reverse_byte(b_rev)),
        <<>>, RangeStep(Len(bits), 8))

GROUP_BITS == 40

\* The groups of one queue: [ptype, d0..d4] per 40-bit chunk, last chunk
\* zero-padded (the "while idx < len(bits)" loop of build_column_payloads).
column_groups(bits, ptype) ==
    FoldLeft(LAMBDA groups, idx :
        LET chunk0 == Slice(bits, idx, idx + GROUP_BITS)
            chunk  == IF Len(chunk0) < GROUP_BITS
                      THEN chunk0 \o Repeat(0, GROUP_BITS - Len(chunk0))
                      ELSE chunk0
        IN  Let(chunk, LAMBDA c : Append(groups, <<ptype>> \o bits_to_data_bytes(c))),
        <<>>, RangeStep(Len(bits), GROUP_BITS))

\* The payloads of one queue's groups: [addr] + up to groups_per_payload
\* groups each (the "while gi < len(groups)" loop).
\* Variant: the slice of a payload runs one group too far.
pack_groups_overlong(addr, groups, groups_per_payload) ==
    FoldLeft(LAMBDA out, gi :
        Append(out,
               FoldLeft(LAMBDA payload, g : payload \o g, <<addr>>,
                        Slice(groups, gi, gi + groups_per_payload + 1))),
        <<>>, RangeStep(Len(groups), groups_per_payload))

pack_groups(addr, groups, groups_per_payload) ==
    FoldLeft(LAMBDA out, gi :
        Append(out,
               FoldLeft(LAMBDA payload, g : payload \o g, <<addr>>,
                        Slice(groups, gi, gi + groups_per_payload))),
        <<>>, RangeStep(Len(groups), groups_per_payload))

\* Variant: sorted(S) without reverse=True.
RECURSIVE SortedAscending(_)
SortedAscending(S) ==
    IF S = {} THEN <<>>
    ELSE LET mn == CHOOSE x \in S : \A y \in S : x <= y
         IN  <<mn>> \o SortedAscending(S \ {mn})

\* sorted(S, reverse=True) for a set of integers.
RECURSIVE SortedDescending(_)
SortedDescending(S) ==
    IF S = {} THEN <<>>
    ELSE LET mx == CHOOSE x \in S : \A y \in S : y <= x
         IN  <<mx>> \o SortedDescending(S \ {mx})

\* Variant: the groups of an address, T90 then T10, are packed as one stream.
build_column_payloads_per_address(qs, groups_per_payload) ==
    LET used_addrs == SortedDescending({ key[1] : key \in DOMAIN qs })
    IN  FoldLeft(LAMBDA out1, addr :
            Let(FoldLeft(LAMBDA groups, ptype :
                    IF <<addr, ptype>> \notin DOMAIN qs THEN groups
                    ELSE groups \o column_groups(qs[<<addr, ptype>>], ptype),
                    <<>>, <<TYPE_90, TYPE_10>>),
                LAMBDA addr_groups :
                    out1 \o pack_groups(addr, addr_groups, groups_per_payload)),
            <<>>, used_addrs)

build_column_payloads(qs, groups_per_payload) ==
    LET used_addrs == SortedDescending({ key[1] : key \in DOMAIN qs })
    IN  FoldLeft(LAMBDA out1, addr :
            FoldLeft(LAMBDA out2, ptype :
                IF <<addr, ptype>> \notin DOMAIN qs THEN out2
                ELSE Let(column_groups(qs[<<addr, ptype>>], ptype),
                         LAMBDA groups :
                             out2 \o pack_groups(addr, groups, groups_per_payload)),
                out1, <<TYPE_90, TYPE_10>>),
            <<>>, used_addrs)

\* The default of build_column_payloads' groups_per_payload parameter.
GROUPS_PER_PAYLOAD == 4

\* The RuntimeError of build_column_payloads: a chunk that did not pack to 5 bytes.
column_payloads_raises(qs) ==
    \E key \in DOMAIN qs :
        /\ key[2] \in {TYPE_90, TYPE_10}
        /\ LET groups == column_groups(qs[key], key[2])
           IN  \E g \in 1..Len(groups) : Len(groups[g]) # 6

-----------------------------------------------------------------------------
(* Decoding: payloads -> (addr, type) bit queues -> logical matrix         *)

\* _append_bits_from_data_bytes: reverse each byte, append its bits MSB-first.
\* Variant: the bits of a reversed byte are appended LSB first.
append_bits_lsb_first(q, data_bytes) ==
    FoldLeft(LAMBDA q1, b :
        LET b_rev == reverse_byte(b)
        IN  FoldLeft(LAMBDA q2, bit_pos : Append(q2, (b_rev \div (2 ^ bit_pos)) % 2),
                     q1, RangeUp(0, 8)),
        q, data_bytes)

append_bits_from_data_bytes(q, data_bytes) ==
    FoldLeft(LAMBDA q1, b :
        LET b_rev == reverse_byte(b)
        IN  FoldLeft(LAMBDA q2, bit_pos : Append(q2, (b_rev \div (2 ^ bit_pos)) % 2),
                     q1, RangeDown(7, -1)),
        q, data_bytes)

\* Variant: an unknown header skips its group and parsing goes on.
RECURSIVE parse_groups_skipping(_, _, _, _)
parse_groups_skipping(addr, body, i, qs) ==
    IF ~(i + 6 <= Len(body)) THEN qs
    ELSE LET type_byte  == body[i + 1]
             data_bytes == Slice(body, i + 1, i + 6)
             key        == <<addr, type_byte>>
             q          == IF key \in DOMAIN qs THEN qs[key] ELSE <<>>
         IN  IF type_byte \notin {TYPE_90, TYPE_10}
             THEN parse_groups_skipping(addr, body, i + 6, qs)
             ELSE Let(DictPut(qs, key, append_bits_from_data_bytes(q, data_bytes)),
                      LAMBDA v : parse_groups_skipping(addr, body, i + 6, v))

\* The "while i + 6 <= len(body)" loop shared by both queue builders.
RECURSIVE parse_groups(_, _, _, _)
parse_groups(addr, body, i, qs) ==
    IF ~(i + 6 <= Len(body)) THEN qs
    ELSE LET type_byte  == body[i + 1]
             data_bytes == Slice(body, i + 1, i + 6)
             key        == <<addr, type_byte>>
             q          == IF key \in DOMAIN qs THEN qs[key] ELSE <<>>
         IN  IF type_byte \notin {TYPE_90, TYPE_10} THEN qs
             ELSE Let(DictPut(qs, key, append_bits_from_data_bytes(q, data_bytes)),
                      LAMBDA v : parse_groups(addr, body, i + 6, v))

build_addr_type_bit_queues_from_payloads(lines) ==
    FoldLeft(LAMBDA qs, line_bytes :
        IF Len(line_bytes) < 7 THEN qs
        ELSE parse_groups(line_bytes[1], Slice(line_bytes, 1, Len(line_bytes)), 0, qs),
        EmptyDict, lines)

\* The "while i + 6 <= len(payload)" loop of build_addr_type_bit_queues_from_frames.
RECURSIVE parse_frame_groups(_, _, _, _)
parse_frame_groups(addr, payload, i, qs) ==
    IF ~(i + 6 <= Len(payload)) THEN qs
    ELSE LET type_byte  == payload[i + 1]
             data_bytes == Slice(payload, i + 1, i + 6)
             key        == <<addr, type_byte>>
             q          == IF key \in DOMAIN qs THEN qs[key] ELSE <<>>
         IN  IF type_byte \notin {TYPE_90, TYPE_10} THEN qs
             ELSE Let(DictPut(qs, key, append_bits_from_data_bytes(q, data_bytes)),
                      LAMBDA v : parse_frame_groups(addr, payload, i + 6, v))

\* Variant: the slice keeps the checksum byte, frame[3:-1].
frames_keeping_checksum(frames) ==
    FoldLeft(LAMBDA qs, frame :
        parse_frame_groups(frame[3], Slice(frame, 3, Len(frame) - 1), 0, qs),
        EmptyDict, frames)

\* addr = frame[2]; payload = frame[3:-2].
build_addr_type_bit_queues_from_frames(frames) ==
    FoldLeft(LAMBDA qs, frame :
        parse_frame_groups(frame[3], Slice(frame, 3, Len(frame) - 2), 0, qs),
        EmptyDict, frames)

\* extract_frames_and_payloads over lines already parsed to bytes: empty and
\* one-byte lines are dropped, 0x7E 0xA5 ... 0x7E lines of five bytes or more
\* are frames, the rest are payloads.  Returns <<frames, payloads>>.
extract_frames_and_payloads(lines) ==
    FoldLeft(LAMBDA fp, bytes_line :
        IF bytes_line = <<>> THEN fp
        ELSE IF Len(bytes_line) < 2 THEN fp
        ELSE IF /\ bytes_line[1] = 126 /\ bytes_line[Len(bytes_line)] = 126
                /\ Len(bytes_line) >= 5 /\ bytes_line[2] = 165
             THEN <<Append(fp[1], bytes_line), fp[2]>>
             ELSE <<fp[1], Append(fp[2], bytes_line)>>,
        << <<>>, <<>> >>, lines)

\* to_ansi.main: bit_queues takes the frames' queues, then the payloads'.
merge_bit_queues(qs_frames, qs_payloads) ==
    [key \in DOMAIN qs_frames \cup DOMAIN qs_payloads |->
        (IF key \in DOMAIN qs_frames THEN qs_frames[key] ELSE <<>>)
        \o (IF key \in DOMAIN qs_payloads THEN qs_payloads[key] ELSE <<>>)]

fill_row_range(seg) ==
    IF seg.row_start = 0
    THEN RangeUp(seg.row_start, seg.row_end)
    ELSE RangeDown(seg.row_end - 1, seg.row_start - 1)

\* Variant: the decoder scans the columns of every segment left to right.
fill_col_range_ascending(seg) == RangeUp(seg.col_start, seg.col_end)

fill_col_range(seg) ==
    IF seg.row_start = 0
    THEN RangeUp(seg.col_start, seg.col_end)
    ELSE RangeDown(seg.col_end - 1, seg.col_start - 1)

\* Variant: the bit is read off the front of the queue and left there.
fill_cell_peeking(seg, row, col, st) ==
    LET seg_row == row - seg.row_start
        seg_col == col - seg.col_start
        ptype   == logical_type_for_segment_pixel(seg_row, seg_col)
        key     == IF ptype = TYPE_90 THEN <<seg.addr_90, TYPE_90>>
                                      ELSE <<seg.addr_10, TYPE_10>>
        q       == st.bit_queues[key]
        bit     == IF q # <<>> THEN Head(q) ELSE 0
    IN  IF ptype = None
        THEN [st EXCEPT !.matrix_bits[row][col] = 0,
                        !.matrix_types[row][col] = None]
        ELSE [st EXCEPT !.matrix_bits[row][col] = bit,
                        !.matrix_types[row][col] = ptype]

\* Variant: a cell met after its queue ran out is lit.
fill_cell_defaulting_to_one(seg, row, col, st) ==
    LET seg_row == row - seg.row_start
        seg_col == col - seg.col_start
        ptype   == logical_type_for_segment_pixel(seg_row, seg_col)
        key     == IF ptype = TYPE_90 THEN <<seg.addr_90, TYPE_90>>
                                      ELSE <<seg.addr_10, TYPE_10>>
        q       == st.bit_queues[key]
        bit     == IF q # <<>> THEN Head(q) ELSE 1
    IN  IF ptype = None
        THEN [st EXCEPT !.matrix_bits[row][col] = 0,
                        !.matrix_types[row][col] = None]
        ELSE [st EXCEPT !.matrix_bits[row][col] = bit,
                        !.matrix_types[row][col] = ptype,
                        !.bit_queues[key] = IF q # <<>> THEN Tail(q) ELSE q]

\* Variant: the HOLE cell stays 0 but takes a bit off the T10 queue.
fill_cell_popping_at_hole(seg, row, col, st) ==
    LET seg_row == row - seg.row_start
        seg_col == col - seg.col_start
        ptype   == logical_type_for_segment_pixel(seg_row, seg_col)
        key     == IF ptype = TYPE_90 THEN <<seg.addr_90, TYPE_90>>
                                      ELSE <<seg.addr_10, TYPE_10>>
        q       == st.bit_queues[key]
        bit     == IF q # <<>> THEN Head(q) ELSE 0
    IN  [st EXCEPT !.matrix_bits[row][col] = IF ptype = None THEN 0 ELSE bit,
                   !.matrix_types[row][col] = ptype,
                   !.bit_queues[key] = IF q # <<>> THEN Tail(q) ELSE q]

\* Body of the inner loop of fill_matrix_from_segments for one cell.  st holds
\* matrix_bits, matrix_types and the caller's bit_queues, which popleft drains.
fill_cell(seg, row, col, st) ==
    LET seg_row == row - seg.row_start
        seg_col == col - seg.col_start
        ptype   == logical_type_for_segment_pixel(seg_row, seg_col)
        key     == IF ptype = TYPE_90 THEN <<seg.addr_90, TYPE_90>>
                                      ELSE <<seg.addr_10, TYPE_10>>
        q       == st.bit_queues[key]
        bit     == IF q # <<>> THEN Head(q) ELSE 0
    IN  IF ptype = None
        THEN [st EXCEPT !.matrix_bits[row][col] = 0,
                        !.matrix_types[row][col] = None]
        ELSE [st EXCEPT !.matrix_bits[row][col] = bit,
                        !.matrix_types[row][col] = ptype,
                        !.bit_queues[key] = IF q # <<>> THEN Tail(q) ELSE q]

\* bit_queues.setdefault(key, deque())
SetDefault(d, key) == IF key \in DOMAIN d THEN d ELSE DictPut(d, key, <<>>)

fill_matrix_from_segments(qs) ==
    FoldLeft(LAMBDA st1, seg :
        FoldLeft(LAMBDA st2, row :
            FoldLeft(LAMBDA st3, col : fill_cell(seg, row, col, st3),
                     st2, fill_col_range(seg)),
            [st1 EXCEPT !.bit_queues =
                SetDefault(SetDefault(@, <<seg.addr_90, TYPE_90>>),
                           <<seg.addr_10, TYPE_10>>)],
            fill_row_range(seg)),
        [matrix_bits  |-> [r \in 0..(MATRIX_ROWS - 1) |-> [c \in 0..(MATRIX_COLS - 1) |-> 0]],
         matrix_types |-> [r \in 0..(MATRIX_ROWS - 1) |-> [c \in 0..(MATRIX_COLS - 1) |-> None]],
         bit_queues   |-> qs],
        SEGMENTS)

-----------------------------------------------------------------------------
(* Calibration primitives (SegmentLogic)                                   *)

\* SegmentLogic.__init__'s default display_address.
DISPLAY_ADDRESS == 5

\* a ^ b on bytes
XorByte(a, b) ==
    FoldLeft(LAMBDA acc, i :
                 acc + (2 ^ i) * ((((a \div (2 ^ i)) % 2) + ((b \div (2 ^ i)) % 2)) % 2),
             0, RangeUp(0, 8))

\* Variant: the checksum covers the payload bytes only.
wrap_in_a5_frame_payload_checksum(display_address, payload) ==
    LET command_byte == 160 + (display_address % 16)
        checksum == FoldLeft(LAMBDA acc, b : XorByte(acc, b), 0, payload)
    IN  (<<126, command_byte>> \o payload) \o <<checksum, 126>>

\* SegmentLogic(display_address)._wrap_in_a5_frame(payload); __init__ keeps
\* the low nibble of display_address, so 0xA0 | nibble is 160 + nibble.
wrap_in_a5_frame_at(display_address, payload) ==
    LET command_byte == 160 + (display_address % 16)
        checksum == FoldLeft(LAMBDA acc, b : XorByte(acc, b), command_byte, payload)
    IN  (<<126, command_byte>> \o payload) \o <<checksum, 126>>

\* The same on a SegmentLogic built with the default display address.
wrap_in_a5_frame(payload) == wrap_in_a5_frame_at(DISPLAY_ADDRESS, payload)

map_display_row_to_physical(seg, seg_row) == seg_row

\* Index in SEGMENTS of the first segment with that name, 0 when there is none
\* (get_segment_info returns the segment, or None).
get_segment_info(segment_name) ==
    IF \E i \in 1..Len(SEGMENTS) : SEGMENTS[i].name = segment_name
    THEN CHOOSE i \in 1..Len(SEGMENTS) :
            /\ SEGMENTS[i].name = segment_name
            /\ \A j \in 1..(i - 1) : SEGMENTS[j].name # segment_name
    ELSE 0

\* core.map_scan_to_type_coords(seg, row, col): the segment-local coordinates
\* that the type layout is defined on.
map_scan_to_type_coords(seg, row, col) == <<row - seg.row_start, col - seg.col_start>>

\* core.segment_scan_ranges(seg): (col_range, row_range) of the segment's scan,
\* ascending in a top segment and descending in a bottom one.
segment_scan_ranges(seg) ==
    IF seg.row_start = 0
    THEN << RangeUp(seg.col_start, seg.col_end), RangeUp(seg.row_start, seg.row_end) >>
    ELSE << RangeDown(seg.col_end - 1, seg.col_start - 1),
            RangeDown(seg.row_end - 1, seg.row_start - 1) >>

\* The matrix of generate_single_pixel_command: all zero, one bit set.
single_pixel_matrix(global_row, global_col) ==
    [r \in 0..(MATRIX_ROWS - 1) |->
        [c \in 0..(MATRIX_COLS - 1) |->
            IF r = global_row /\ c = global_col THEN 1 ELSE 0]]

\* The "while idx < len(p)" scan: does payload p hold a non-zero data byte?
payload_is_active(p) ==
    \E k \in 0..((Len(p) + 4) \div 6) :
        LET idx == 1 + 6 * k
            data_chunk == Slice(p, idx + 1, idx + 6)
        IN  /\ idx < Len(p)
            /\ \E n \in 1..Len(data_chunk) : data_chunk[n] # 0

\* First element of seq satisfying Test, or <<>>  (for p in seq: if ...: break)
FirstWhere(seq, Test(_)) ==
    IF \E i \in 1..Len(seq) : Test(seq[i])
    THEN seq[CHOOSE i \in 1..Len(seq) :
                /\ Test(seq[i])
                /\ \A j \in 1..(i - 1) : ~Test(seq[j])]
    ELSE <<>>

\* Steps 3..end of generate_single_pixel_command, once the bit is set.
\* Variant: the first payload is taken whether or not it holds the lit bit.
select_first_payload(seg, global_row, global_col, pls, frame_format) ==
    IF pls = <<>> THEN <<>>
    ELSE IF frame_format = "A5-frame" THEN wrap_in_a5_frame(pls[1])
    ELSE pls[1]

select_single_pixel_payload(seg, global_row, global_col, pls, frame_format) ==
    LET active == FirstWhere(pls, payload_is_active)
        tc     == map_scan_to_type_coords(seg, global_row, global_col)
        ptype  == logical_type_for_segment_pixel(tc[1], tc[2])
        addr   == IF ptype = TYPE_90 THEN seg.addr_90 ELSE seg.addr_10
        target == IF active = <<>> /\ pls # <<>>
                  THEN FirstWhere(pls, LAMBDA p : p[1] = addr)
                  ELSE active
    IN  IF active = <<>> /\ pls # <<>> /\ ptype = None THEN <<>>
        ELSE IF frame_format = "A5-frame" THEN wrap_in_a5_frame(target)
        ELSE target

generate_single_pixel_command(segment_name, seg_row, seg_col, frame_format) ==
    LET s == get_segment_info(segment_name)
        seg == SEGMENTS[s]
        physical_seg_row == map_display_row_to_physical(seg, seg_row)
        global_row == seg.row_start + physical_seg_row
        global_col == seg.col_start + seg_col
    IN  IF s = 0 THEN <<>>
        ELSE IF ~(/\ 0 <= global_row /\ global_row < MATRIX_ROWS
                  /\ 0 <= global_col /\ global_col < MATRIX_COLS) THEN <<>>
        ELSE Let(build_bit_queues_from_matrix(single_pixel_matrix(global_row, global_col)),
                 LAMBDA qs :
                     Let(build_column_payloads(qs, GROUPS_PER_PAYLOAD),
                         LAMBDA pls : select_single_pixel_payload(seg, global_row, global_col,
                                                                  pls, frame_format)))

\* calculate_bit_index: scan with col as the outer and row as the inner loop,
\* counting the cells of the target's type met before the target.
calculate_bit_index(seg, target_seg_row, target_seg_col) ==
    LET physical_seg_row == map_display_row_to_physical(seg, target_seg_row)
        global_row == seg.row_start + physical_seg_row
        global_col == seg.col_start + target_seg_col
        ttc == map_scan_to_type_coords(seg, global_row, global_col)
        target_ptype == logical_type_for_segment_pixel(ttc[1], ttc[2])
        ranges == segment_scan_ranges(seg)
        col_range == ranges[1]
        row_range == ranges[2]
        scan ==
            FoldLeft(LAMBDA st1, col :
                FoldLeft(LAMBDA st2, row :
                    LET curr_seg_row == row - seg.row_start
                        curr_seg_col == col - seg.col_start
                        tc == map_scan_to_type_coords(seg, row, col)
                        ptype == logical_type_for_segment_pixel(tc[1], tc[2])
                    IN  IF st2.returned THEN st2
                        ELSE IF curr_seg_row = physical_seg_row /\ curr_seg_col = target_seg_col
                             THEN [st2 EXCEPT !.returned = TRUE]
                        ELSE IF ptype = target_ptype
                             THEN [st2 EXCEPT !.bit_counter = @ + 1]
                        ELSE st2,
                    st1, row_range),
                [returned |-> FALSE, bit_counter |-> 0], col_range)
    IN  IF target_ptype = None THEN -1
        ELSE IF scan.returned THEN scan.bit_counter
        ELSE -1

\* get_pixel_info: {} for an unknown segment, else {type, address, bit_index}.
get_pixel_info(segment_name, seg_row, seg_col) ==
    LET s == get_segment_info(segment_name)
        seg == SEGMENTS[s]
        global_col == seg.col_start + seg_col
        physical_seg_row == map_display_row_to_physical(seg, seg_row)
        global_row == seg.row_start + physical_seg_row
        tc == map_scan_to_type_coords(seg, global_row, global_col)
        ptype == logical_type_for_segment_pixel(tc[1], tc[2])
        addr == IF ptype = TYPE_90 THEN seg.addr_90 ELSE seg.addr_10
    IN  IF s = 0 THEN <<>>
        ELSE IF ptype = None
             THEN [type |-> "hole", address |-> None, bit_index |-> -1]
        ELSE [type |-> ptype, address |-> addr,
              bit_index |-> calculate_bit_index(seg, seg_row, seg_col)]

\* Variant: the blank matrix is built of ones.
generate_lit_payloads(frame_format) ==
    Let(build_bit_queues_from_matrix(
            [r \in 0..(MATRIX_ROWS - 1) |-> [c \in 0..(MATRIX_COLS - 1) |-> 1]]),
        LAMBDA qs :
            Let(build_column_payloads(qs, GROUPS_PER_PAYLOAD),
                LAMBDA pls :
                    IF frame_format = "A5-frame"
                    THEN [n \in 1..Len(pls) |-> wrap_in_a5_frame(pls[n])]
                    ELSE pls))

\* generate_blank_payloads: the payloads of the all-zero matrix.
generate_blank_payloads(frame_format) ==
    Let(build_bit_queues_from_matrix(
            [r \in 0..(MATRIX_ROWS - 1) |-> [c \in 0..(MATRIX_COLS - 1) |-> 0]]),
        LAMBDA qs :
            Let(build_column_payloads(qs, GROUPS_PER_PAYLOAD),
                LAMBDA pls :
                    IF frame_format = "A5-frame"
                    THEN [n \in 1..Len(pls) |-> wrap_in_a5_frame(pls[n])]
                    ELSE pls))

\* generate_command_from_bit_index: a zero queue of max(160, bit_index + 1)
\* bits rounded up to a multiple of 40, one bit set, packed; the first payload
\* of the address is returned.
generate_command_from_bit_index(segment_name, addr, type_code, bit_index, frame_format) ==
    LET length0 == IF bit_index + 1 > 160 THEN bit_index + 1 ELSE 160
        length  == IF length0 % 40 # 0 THEN length0 + (40 - (length0 % 40)) ELSE length0
        queue   == [n \in 1..length |-> IF n = bit_index + 1 THEN 1 ELSE 0]
    IN  IF bit_index < 0 THEN <<>>
        ELSE Let(build_column_payloads(DictPut(EmptyDict, <<addr, type_code>>, queue),
                                       GROUPS_PER_PAYLOAD),
                 LAMBDA pls :
                     LET target_payload == FirstWhere(pls, LAMBDA p : p[1] = addr)
                     IN  IF target_payload = <<>> THEN <<>>
                         ELSE IF frame_format = "A5-frame"
                              THEN wrap_in_a5_frame(target_payload)
                         ELSE target_payload)

-----------------------------------------------------------------------------
(* Bounds of the inputs that the specifications draw                        *)

\* Rows and columns probed inward from each edge of a segment, and queue
\* positions probed inward from each end of a queue.
ProbeSpan == 1

\* Longest queue, in 40-bit groups, handed to build_column_payloads on its own.
MaxGroups == 5

SEG_ROWS == 13
SEG_COLS == 24

ProbeRows == (0..(ProbeSpan - 1)) \cup ((SEG_ROWS - ProbeSpan)..(SEG_ROWS - 1))
ProbeCols == (0..(ProbeSpan - 1)) \cup ((SEG_COLS - ProbeSpan)..(SEG_COLS - 1))

ZeroMatrix == [r \in 0..(MATRIX_ROWS - 1) |-> [c \in 0..(MATRIX_COLS - 1) |-> 0]]
FullMatrix == [r \in 0..(MATRIX_ROWS - 1) |-> [c \in 0..(MATRIX_COLS - 1) |-> 1]]
DiagonalMatrix ==
    [r \in 0..(MATRIX_ROWS - 1) |-> [c \in 0..(MATRIX_COLS - 1) |-> IF r = c THEN 1 ELSE 0]]

\* A matrix without symmetry in rows or columns, dark at the HOLE cells.
PatternMatrix ==
    [r \in 0..(MATRIX_ROWS - 1) |->
        [c \in 0..(MATRIX_COLS - 1) |-> IF (7 * r + 3 * c) % 5 = 2 THEN 1 ELSE 0]]

\* Global (row, col) of the probed cells of every segment.
ProbeCells ==
    { <<SEGMENTS[s].row_start + r, SEGMENTS[s].col_start + c>> :
        s \in 1..Len(SEGMENTS), r \in ProbeRows, c \in ProbeCols }

InputMatrices ==
    {ZeroMatrix, FullMatrix, DiagonalMatrix, PatternMatrix}
    \cup { single_pixel_matrix(x[1], x[2]) : x \in ProbeCells }

\* The two queue keys of a segment.
SegmentKeys(seg) == { <<seg.addr_90, TYPE_90>>, <<seg.addr_10, TYPE_10>> }

AllSegmentKeys == UNION { SegmentKeys(SEGMENTS[s]) : s \in 1..Len(SEGMENTS) }

\* Number of cells of a 13x24 segment whose type is ptype.
TypeCount(ptype) ==
    Cardinality({ x \in (0..(SEG_ROWS - 1)) \X (0..(SEG_COLS - 1)) :
                    logical_type_for_segment_pixel(x[1], x[2]) = ptype })

\* Queue maps with one queue per segment key.
UniformQueues(bit, len90, len10) ==
    [key \in AllSegmentKeys |->
        Repeat(bit, IF key[2] = TYPE_90 THEN len90 ELSE len10)]

SingleBitQueues(key, pos) ==
    [UniformQueues(0, TypeCount(TYPE_90), TypeCount(TYPE_10)) EXCEPT ![key][pos] = 1]

\* Exact-length queues without a repeating pattern shared between keys.
PatternQueues ==
    [key \in AllSegmentKeys |->
        [i \in 1..TypeCount(key[2]) |-> IF (i + key[1]) % 3 = 0 THEN 1 ELSE 0]]

ProbePositions(len) == (1..ProbeSpan) \cup ((len - ProbeSpan + 1)..len)

InputQueueMaps ==
    { UniformQueues(b, TypeCount(TYPE_90), TypeCount(TYPE_10)) : b \in {0, 1} }
    \cup UNION { { SingleBitQueues(key, pos) : pos \in ProbePositions(TypeCount(key[2])) } :
                   key \in AllSegmentKeys }
    \cup { PatternQueues,
           UniformQueues(1, 4 * GROUP_BITS, 4 * GROUP_BITS),
           UniformQueues(1, GROUP_BITS, GROUP_BITS + 1) }

\* Queue lengths handed to build_column_payloads on its own: whole groups,
\* and groups with a single bit in the last one.
LenChoices ==
    {0} \cup { GROUP_BITS * g : g \in 1..MaxGroups }
        \cup { GROUP_BITS * g - (GROUP_BITS - 1) : g \in 1..MaxGroups }

\* A queue map over address 7 (both types) and one more address (type 0x10);
\* a length of -1 leaves the key out.
PackInput(len90, len10, other_addr, other_len) ==
    LET keys == (IF len90 >= 0 THEN {<<7, TYPE_90>>} ELSE {})
                \cup (IF len10 >= 0 THEN {<<7, TYPE_10>>} ELSE {})
                \cup (IF other_len >= 0 THEN {<<other_addr, TYPE_10>>} ELSE {})
    IN  [key \in keys |->
            Repeat(1, IF key = <<7, TYPE_90>> THEN len90
                      ELSE IF key = <<7, TYPE_10>> THEN len10
                      ELSE other_len)]

-----------------------------------------------------------------------------
(* The state machines                                                      *)

Init ==
    /\ ENABLE_HOLE_PIXEL \in BOOLEAN
    /\ pc = "idle"
    /\ matrix = ZeroMatrix
    /\ queues = EmptyDict
    /\ payloads = <<>>
    /\ bit_queues = EmptyDict
    /\ filled = <<>>
    /\ requeued = EmptyDict
    /\ pixel = <<>>
    /\ calib = <<>>
    /\ in_lines = <<>>
    /\ in_frames = <<>>
    /\ queues_frames = EmptyDict
    /\ queues_payloads = EmptyDict
    /\ in_bits = <<>>
    /\ out_bytes = <<>>
    /\ window = <<>>
    /\ transport = <<>>
    /\ call_in = <<>>
    /\ call_out = <<>>

(* Spec: a caller encodes a matrix to payloads and decodes them again.     *)

SetMatrix ==
    /\ pc = "idle"
    /\ matrix' \in InputMatrices
    /\ pc' = "matrix"
    /\ UNCHANGED << ENABLE_HOLE_PIXEL, queues, payloads, bit_queues, filled,
                    requeued, pixel, calib >>
    /\ UNCHANGED << batch_vars, byte_vars, app_vars, call_vars >>

Encode ==
    /\ pc = "matrix"
    /\ queues' = build_bit_queues_from_matrix(matrix)
    /\ pc' = "encoded"
    /\ UNCHANGED << ENABLE_HOLE_PIXEL, matrix, payloads, bit_queues, filled,
                    requeued, pixel, calib >>
    /\ UNCHANGED << batch_vars, byte_vars, app_vars, call_vars >>

Pack ==
    /\ pc = "encoded"
    /\ ~column_payloads_raises(queues)
    /\ payloads' = build_column_payloads(queues, GROUPS_PER_PAYLOAD)
    /\ pc' = "packed"
    /\ UNCHANGED << ENABLE_HOLE_PIXEL, matrix, queues, bit_queues, filled,
                    requeued, pixel, calib >>
    /\ UNCHANGED << batch_vars, byte_vars, app_vars, call_vars >>

Parse ==
    /\ pc = "packed"
    /\ bit_queues' = build_addr_type_bit_queues_from_payloads(payloads)
    /\ pc' = "parsed"
    /\ UNCHANGED << ENABLE_HOLE_PIXEL, matrix, queues, payloads, filled,
                    requeued, pixel, calib >>
    /\ UNCHANGED << batch_vars, byte_vars, app_vars, call_vars >>

Fill ==
    /\ pc = "parsed"
    /\ \E st \in {fill_matrix_from_segments(bit_queues)} :
           /\ filled' = [matrix_bits |-> st.matrix_bits, matrix_types |-> st.matrix_types]
           /\ bit_queues' = st.bit_queues
    /\ pc' = "decoded"
    /\ UNCHANGED << ENABLE_HOLE_PIXEL, matrix, queues, payloads,
                    requeued, pixel, calib >>
    /\ UNCHANGED << batch_vars, byte_vars, app_vars, call_vars >>

Next == SetMatrix \/ Encode \/ Pack \/ Parse \/ Fill

Spec == Init /\ [][Next]_vars

(* SpecQueues: a caller decodes a queue map and encodes the matrix again.  *)

SetQueues ==
    /\ pc = "idle"
    /\ queues' \in InputQueueMaps
    /\ bit_queues' = queues'
    /\ pc' = "queues"
    /\ UNCHANGED << ENABLE_HOLE_PIXEL, matrix, payloads, filled, requeued,
                    pixel, calib >>
    /\ UNCHANGED << batch_vars, byte_vars, app_vars, call_vars >>

FillQueues ==
    /\ pc = "queues"
    /\ \E st \in {fill_matrix_from_segments(bit_queues)} :
           /\ filled' = [matrix_bits |-> st.matrix_bits, matrix_types |-> st.matrix_types]
           /\ bit_queues' = st.bit_queues
    /\ pc' = "filled"
    /\ UNCHANGED << ENABLE_HOLE_PIXEL, matrix, queues, payloads, requeued,
                    pixel, calib >>
    /\ UNCHANGED << batch_vars, byte_vars, app_vars, call_vars >>

Requeue ==
    /\ pc = "filled"
    /\ requeued' = build_bit_queues_from_matrix(filled.matrix_bits)
    /\ pc' = "requeued"
    /\ UNCHANGED << ENABLE_HOLE_PIXEL, matrix, queues, payloads, bit_queues,
                    filled, pixel, calib >>
    /\ UNCHANGED << batch_vars, byte_vars, app_vars, call_vars >>

NextQueues == SetQueues \/ FillQueues \/ Requeue

SpecQueues == Init /\ [][NextQueues]_vars

(* SpecPayloads: a caller hands a queue map to build_column_payloads.      *)

SetPackInput ==
    /\ pc = "idle"
    /\ \E len90 \in LenChoices \cup {-1}, len10 \in LenChoices \cup {-1},
          other_addr \in {3, 8}, other_len \in {-1, GROUP_BITS + 1} :
           /\ other_len = -1 => other_addr = 3
           /\ queues' = PackInput(len90, len10, other_addr, other_len)
    /\ pc' = "pack_input"
    /\ UNCHANGED << ENABLE_HOLE_PIXEL, matrix, payloads, bit_queues, filled,
                    requeued, pixel, calib >>
    /\ UNCHANGED << batch_vars, byte_vars, app_vars, call_vars >>

PackQueues ==
    /\ pc = "pack_input"
    /\ ~column_payloads_raises(queues)
    /\ payloads' = build_column_payloads(queues, GROUPS_PER_PAYLOAD)
    /\ pc' = "packed_input"
    /\ UNCHANGED << ENABLE_HOLE_PIXEL, matrix, queues, bit_queues, filled,
                    requeued, pixel, calib >>
    /\ UNCHANGED << batch_vars, byte_vars, app_vars, call_vars >>

NextPayloads == SetPackInput \/ PackQueues

SpecPayloads == Init /\ [][NextPayloads]_vars

(* SpecCalib: the calibrator asks for a pixel's command and its info.      *)

SegmentNames == { SEGMENTS[s].name : s \in 1..Len(SEGMENTS) }

SelectPixel ==
    /\ pc = "idle"
    /\ \E name \in SegmentNames, r \in ProbeRows, c \in ProbeCols :
           pixel' = [segment_name |-> name, seg_row |-> r, seg_col |-> c,
                     frame_format |-> "raw-payload"]
    /\ pc' = "selected"
    /\ UNCHANGED << ENABLE_HOLE_PIXEL, matrix, queues, payloads, bit_queues,
                    filled, requeued, calib >>
    /\ UNCHANGED << batch_vars, byte_vars, app_vars, call_vars >>

GenerateCommand ==
    /\ pc = "selected"
    /\ calib' = [cmd |-> generate_single_pixel_command(pixel.segment_name, pixel.seg_row,
                                                       pixel.seg_col, pixel.frame_format)]
    /\ pc' = "generated"
    /\ UNCHANGED << ENABLE_HOLE_PIXEL, matrix, queues, payloads, bit_queues,
                    filled, requeued, pixel >>
    /\ UNCHANGED << batch_vars, byte_vars, app_vars, call_vars >>

PixelInfo ==
    /\ pc = "generated"
    /\ calib' = [cmd  |-> calib.cmd,
                 info |-> get_pixel_info(pixel.segment_name, pixel.seg_row, pixel.seg_col)]
    /\ pc' = "informed"
    /\ UNCHANGED << ENABLE_HOLE_PIXEL, matrix, queues, payloads, bit_queues,
                    filled, requeued, pixel >>
    /\ UNCHANGED << batch_vars, byte_vars, app_vars, call_vars >>

TypeAt ==
    /\ pc = "idle"
    /\ \E r \in 0..(SEG_ROWS - 1), c \in 0..(SEG_COLS - 1) :
           /\ pixel' = [seg_row |-> r, seg_col |-> c]
           /\ calib' = [ptype |-> logical_type_for_segment_pixel(r, c)]
    /\ pc' = "typed"
    /\ UNCHANGED << ENABLE_HOLE_PIXEL, matrix, queues, payloads, bit_queues,
                    filled, requeued >>
    /\ UNCHANGED << batch_vars, byte_vars, app_vars, call_vars >>

NextCalib == SelectPixel \/ GenerateCommand \/ PixelInfo \/ TypeAt

SpecCalib == Init /\ [][NextCalib]_vars

-----------------------------------------------------------------------------
(* SpecInvalid: the calibrator asked about pixels that do not exist.       *)

\* Segment-local coordinates on and beyond the edges of a segment.
EdgeRows == {-1, SEG_ROWS - 1, SEG_ROWS, MATRIX_ROWS}
EdgeCols == {-1, SEG_COLS - 1, SEG_COLS, MATRIX_COLS}

SelectAnyPixel ==
    /\ pc = "idle"
    /\ \E name \in SegmentNames \cup {"middle"}, r \in EdgeRows, c \in EdgeCols :
           pixel' = [segment_name |-> name, seg_row |-> r, seg_col |-> c,
                     frame_format |-> "raw-payload"]
    /\ pc' = "selected"
    /\ UNCHANGED << ENABLE_HOLE_PIXEL, pipeline_vars, calib, batch_vars, byte_vars, app_vars, call_vars >>

NextInvalid == SelectAnyPixel \/ GenerateCommand \/ PixelInfo

SpecInvalid == Init /\ [][NextInvalid]_vars

-----------------------------------------------------------------------------
(* SpecCommands: commands built from a bit index, and the blank payloads.  *)

\* Bit indices around the ends of a byte, of a group and of a payload.
BitIndexChoices == {-1, 0, 7, 8, 39, 40, 155, 159, 160, 200}

SetIndexRequest ==
    /\ pc = "idle"
    /\ \E name \in SegmentNames, addr \in {1, 7}, type_code \in {TYPE_90, TYPE_10},
          bit_index \in BitIndexChoices :
           pixel' = [segment_name |-> name, addr |-> addr, type_code |-> type_code,
                     bit_index |-> bit_index, frame_format |-> "raw-payload"]
    /\ pc' = "index_request"
    /\ UNCHANGED << ENABLE_HOLE_PIXEL, pipeline_vars, calib, batch_vars, byte_vars, app_vars, call_vars >>

CommandFromBitIndex ==
    /\ pc = "index_request"
    /\ calib' = [cmd |-> generate_command_from_bit_index(
                             pixel.segment_name, pixel.addr, pixel.type_code,
                             pixel.bit_index, pixel.frame_format)]
    /\ pc' = "index_command"
    /\ UNCHANGED << ENABLE_HOLE_PIXEL, pipeline_vars, pixel, batch_vars, byte_vars, app_vars, call_vars >>

BlankPayloads ==
    /\ pc = "idle"
    /\ calib' = [blank |-> generate_blank_payloads("raw-payload")]
    /\ pc' = "blank"
    /\ UNCHANGED << ENABLE_HOLE_PIXEL, pipeline_vars, pixel, batch_vars, byte_vars, app_vars, call_vars >>

NextCommands == SetIndexRequest \/ CommandFromBitIndex \/ BlankPayloads

SpecCommands == Init /\ [][NextCommands]_vars

-----------------------------------------------------------------------------
(* SpecBatch: to_ansi.main decodes a batch of input lines.                 *)
(* SpecFrames: one body decoded as a frame and as a raw payload.           *)

\* Most lines in a batch, most groups in a body.
MaxLines == 2
MaxBodyGroups == 2

GroupA == <<TYPE_90, 1, 2, 3, 4, 5>>
GroupB == <<TYPE_10, 128, 0, 0, 0, 255>>
GroupC == <<TYPE_90, 9, 8, 7, 6, 5>>
GroupBad == <<85, 1, 1, 1, 1, 1>>
PartialGroup == <<TYPE_90, 7, 7, 7, 7>>

\* The legacy frame of a raw payload: 0x7E, 0xA5, payload, checksum, 0x7E.
FrameOf(payload) == wrap_in_a5_frame(payload)

BatchBodies ==
    { GroupA, GroupB \o GroupA, GroupC \o GroupBad \o GroupA, GroupB \o PartialGroup }

BatchLines ==
    { <<7>> \o body : body \in BatchBodies }
    \cup { FrameOf(<<7>> \o body) : body \in BatchBodies }
    \cup { <<3>> \o GroupA, <<9>>, <<>> }

InputBatches == UNION { [1..n -> BatchLines] : n \in 0..MaxLines }

RECURSIVE GroupSeqs(_)
GroupSeqs(n) ==
    IF n = 0 THEN { <<>> }
    ELSE { body \o g : body \in GroupSeqs(n - 1), g \in {GroupA, GroupB, GroupBad} }

InputBodies ==
    LET whole == UNION { GroupSeqs(n) : n \in 0..MaxBodyGroups }
    IN  whole \cup { body \o PartialGroup : body \in whole }

SetLines ==
    /\ pc = "idle"
    /\ in_lines' \in InputBatches
    /\ pc' = "lines"
    /\ UNCHANGED << ENABLE_HOLE_PIXEL, pipeline_vars, calib_vars, byte_vars,
                    in_frames, queues_frames, queues_payloads, app_vars, call_vars >>

\* main, line 109; with neither frames nor payloads main returns (111-116).
Extract ==
    /\ pc = "lines"
    /\ \E fp \in {extract_frames_and_payloads(in_lines)} :
           /\ in_frames' = fp[1]
           /\ payloads' = fp[2]
           /\ pc' = IF fp[1] = <<>> /\ fp[2] = <<>> THEN "no_input" ELSE "extracted"
    /\ UNCHANGED << ENABLE_HOLE_PIXEL, matrix, queues, bit_queues, filled, requeued,
                    calib_vars, byte_vars, in_lines, queues_frames, queues_payloads, app_vars, call_vars >>

\* main, lines 122 and 127.
BuildQueues ==
    /\ pc = "extracted"
    /\ queues_frames' = build_addr_type_bit_queues_from_frames(in_frames)
    /\ queues_payloads' = build_addr_type_bit_queues_from_payloads(payloads)
    /\ pc' = "batch_decoded"
    /\ UNCHANGED << ENABLE_HOLE_PIXEL, pipeline_vars, calib_vars, byte_vars,
                    in_lines, in_frames, app_vars, call_vars >>

\* main, lines 119-129.
Merge ==
    /\ pc = "batch_decoded"
    /\ bit_queues' = merge_bit_queues(queues_frames, queues_payloads)
    /\ pc' = "merged"
    /\ UNCHANGED << ENABLE_HOLE_PIXEL, matrix, queues, payloads, filled, requeued,
                    calib_vars, byte_vars, batch_vars, app_vars, call_vars >>

NextBatch == SetLines \/ Extract \/ BuildQueues \/ Merge

SpecBatch == Init /\ [][NextBatch]_vars

\* One body, as the frame and as the raw payload of one address.
SetFramedBody ==
    /\ pc = "idle"
    /\ \E addr \in {1, 8}, body \in InputBodies :
           /\ payloads' = << <<addr>> \o body >>
           /\ in_frames' = << FrameOf(<<addr>> \o body) >>
           /\ in_lines' = << FrameOf(<<addr>> \o body), <<addr>> \o body >>
    /\ pc' = "extracted"
    /\ UNCHANGED << ENABLE_HOLE_PIXEL, matrix, queues, bit_queues, filled, requeued,
                    calib_vars, byte_vars, queues_frames, queues_payloads, app_vars, call_vars >>

NextFrames == SetFramedBody \/ BuildQueues

SpecFrames == Init /\ [][NextFrames]_vars

-----------------------------------------------------------------------------
(* SpecShort: fill_matrix_from_segments on missing and short queues.       *)

\* Queue lengths short of a segment's demand; -1 leaves the queue out.
ShortLens == {-1, 0, 1, SEG_COLS, SEG_COLS + 1, 100}

\* The left segments get queues of len90 / len10 bits, the right segments of
\* len10 / len90 bits; every third bit is set, starting with the first.
ShortQueues(len90, len10) ==
    LET LenOf(key) == IF (key[1] % 2 = 1) = (key[2] = TYPE_90) THEN len90 ELSE len10
    IN  [key \in { k \in AllSegmentKeys : LenOf(k) >= 0 } |->
            [i \in 1..LenOf(key) |-> IF i % 3 = 1 THEN 1 ELSE 0]]

SetShortQueues ==
    /\ pc = "idle"
    /\ \E len90 \in ShortLens, len10 \in ShortLens :
           /\ queues' = ShortQueues(len90, len10)
           /\ bit_queues' = queues'
    /\ pc' = "queues"
    /\ UNCHANGED << ENABLE_HOLE_PIXEL, matrix, payloads, filled, requeued,
                    calib_vars, batch_vars, byte_vars, app_vars, call_vars >>

NextShort == SetShortQueues \/ FillQueues

SpecShort == Init /\ [][NextShort]_vars

-----------------------------------------------------------------------------
(* SpecWrap: SegmentLogic._wrap_in_a5_frame on its own.                    *)

MaxWrapLen == 3

\* Payload bytes that matter to a frame: zero, one bit, the delimiter, the
\* command byte and all ones.
WrapBytes == {0, 1, 126, 165, 255}

\* Sequences over S of length at most n.
SeqsUpTo(S, n) == UNION { [1..k -> S] : k \in 0..n }

\* Display addresses inside and outside the nibble.
WrapAddresses == {0, 5, 15, 16, 37, 255}

SetWrapInput ==
    /\ pc = "idle"
    /\ \E display_address \in WrapAddresses, payload \in SeqsUpTo(WrapBytes, MaxWrapLen) :
           call_in' = [display_address |-> display_address, payload |-> payload]
    /\ pc' = "wrap_input"
    /\ UNCHANGED << ENABLE_HOLE_PIXEL, pipeline_vars, calib_vars, batch_vars, byte_vars,
                    app_vars, call_out >>

WrapFrame ==
    /\ pc = "wrap_input"
    /\ call_out' = wrap_in_a5_frame_at(call_in.display_address, call_in.payload)
    /\ pc' = "wrapped"
    /\ UNCHANGED << ENABLE_HOLE_PIXEL, pipeline_vars, calib_vars, batch_vars, byte_vars,
                    app_vars, call_in >>

NextWrap == SetWrapInput \/ WrapFrame

SpecWrap == Init /\ [][NextWrap]_vars

-----------------------------------------------------------------------------
(* SpecTransport: Transport.connect and Transport.send_payload_batch.      *)

CMD_COLUMN_DATA_FLIPDOT == 16
CMD_PRE_BITMAP_FLIPDOT == 32
CMD_QUERY == 2

\* Transport.__init__'s defaults for pre_width and pre_height.
pre_bitmap_payload == <<8, 4>>

\* The commands of one batch in the order send_payload_batch issues them.
bus_sequence(sanitized_batches) ==
    (<<[command |-> CMD_QUERY, payload |-> <<>>],
       [command |-> CMD_PRE_BITMAP_FLIPDOT, payload |-> pre_bitmap_payload]>>
     \o [i \in 1..Len(sanitized_batches) |->
            [command |-> CMD_COLUMN_DATA_FLIPDOT, payload |-> sanitized_batches[i]]])
    \o <<[command |-> CMD_QUERY, payload |-> <<>>]>>

\* Variant: a failed command is logged and the rest of the batch still goes
\* out; the result is that of the final QUERY.
send_payload_batch_ignoring_failures(t, payload_batches, fail_at) ==
    LET sanitized_batches ==
            [i \in 1..Len(payload_batches) |->
                [j \in 1..Len(payload_batches[i]) |-> payload_batches[i][j] % 256]]
        sequence == bus_sequence(sanitized_batches)
    IN  IF sanitized_batches = <<>> THEN [issued |-> <<>>, result |-> FALSE]
        ELSE IF t.simulation THEN [issued |-> <<>>, result |-> TRUE]
        ELSE IF ~t.master THEN [issued |-> <<>>, result |-> FALSE]
        ELSE [issued |-> [i \in 1..Len(sequence) |->
                            [command |-> sequence[i].command,
                             payload |-> sequence[i].payload,
                             ok      |-> i # fail_at]],
              result |-> fail_at # Len(sequence)]

\* Transport.send_payload_batch on transport t.  The command at position
\* fail_at of the sequence is the one master.send_command raises on (none
\* when fail_at = 0); issued lists the calls made to master.send_command and
\* whether each came back.
send_payload_batch(t, payload_batches, fail_at) ==
    LET sanitized_batches ==
            [i \in 1..Len(payload_batches) |->
                [j \in 1..Len(payload_batches[i]) |-> payload_batches[i][j] % 256]]
        sequence == bus_sequence(sanitized_batches)
        last     == IF fail_at = 0 THEN Len(sequence) ELSE fail_at
    IN  IF sanitized_batches = <<>> THEN [issued |-> <<>>, result |-> FALSE]
        ELSE IF t.simulation THEN [issued |-> <<>>, result |-> TRUE]
        ELSE IF ~t.master THEN [issued |-> <<>>, result |-> FALSE]
        ELSE [issued |-> [i \in 1..last |->
                            [command |-> sequence[i].command,
                             payload |-> sequence[i].payload,
                             ok      |-> i # fail_at]],
              result |-> fail_at = 0]

MaxBatch == 2

\* Payloads handed to the transport: a one-group payload, one with an
\* out-of-range byte, and an empty one.
BusPayloads == { <<3, TYPE_10, 128, 0, 0, 0, 0>>, <<263, TYPE_90>>, <<>> }

\* Transport(...): not connected yet.  serial_master is whether the lawo
\* package could be imported; bus holds the calls the latest batch made to
\* master.send_command.
NewTransport ==
    /\ pc = "idle"
    /\ \E simulation \in BOOLEAN, serial_master \in BOOLEAN :
           transport' = [simulation |-> simulation, serial_master |-> serial_master,
                         master |-> FALSE, bus |-> <<>>]
    /\ pc' = "transport"
    /\ UNCHANGED << ENABLE_HOLE_PIXEL, pipeline_vars, calib_vars, batch_vars, byte_vars,
                    window, call_vars >>

\* Transport.connect(); opened is whether SerialMONOMaster(...) came back
\* rather than raised.
Connect ==
    /\ pc = "transport"
    /\ \E opened \in BOOLEAN :
           transport' =
               IF transport.simulation THEN transport
               ELSE IF ~transport.serial_master THEN [transport EXCEPT !.simulation = TRUE]
               ELSE IF opened THEN [transport EXCEPT !.master = TRUE]
               ELSE transport
    /\ pc' = "connected"
    /\ UNCHANGED << ENABLE_HOLE_PIXEL, pipeline_vars, calib_vars, batch_vars, byte_vars,
                    window, call_vars >>

SendPayloadBatch ==
    /\ pc \in {"transport", "connected"}
    /\ \E payload_batches \in SeqsUpTo(BusPayloads, MaxBatch) :
       \E fail_at \in 0..(Len(payload_batches) + 3) :
           LET sent == send_payload_batch(transport, payload_batches, fail_at)
           IN  /\ call_in' = payload_batches
               /\ call_out' = sent.result
               /\ transport' = [transport EXCEPT !.bus = sent.issued]
    /\ pc' = "sent"
    /\ UNCHANGED << ENABLE_HOLE_PIXEL, pipeline_vars, calib_vars, batch_vars, byte_vars,
                    window >>

NextTransport == NewTransport \/ Connect \/ SendPayloadBatch

SpecTransport == Init /\ [][NextTransport]_vars

-----------------------------------------------------------------------------
(* SpecNormalize: PersistenceManager._normalize_mapping_payloads.          *)

CHUNK_SIZE == 5

\* command_codec.extract_data_bytes: drop payload[0], then from every group
\* of 1 + CHUNK_SIZE bytes drop the first.
extract_data_bytes(payload) ==
    IF payload = <<>> THEN <<>>
    ELSE FoldLeft(LAMBDA data_bytes, k :
                      data_bytes \o Slice(payload, (1 + k) + 1, (1 + k) + 1 + CHUNK_SIZE),
                  <<>>, RangeStep(Len(payload) - 1, 1 + CHUNK_SIZE))

\* command_codec.full_to_compact_record for a non-empty payload.
full_to_compact_record(payload) ==
    [address   |-> payload[1],
     type_code |-> IF Len(payload) > 1 THEN payload[2] ELSE None,
     data      |-> extract_data_bytes(payload)]

looks_like_full(payload, address) ==
    IF payload = <<>> THEN FALSE
    ELSE IF address # None /\ payload[1] # address THEN FALSE
    ELSE (Len(payload) - 1) % 6 = 0

\* pixel.get(key, default) on a pixel read from JSON.
PixelGet(px, key, default) == IF key \in DOMAIN px THEN px[key] ELSE default

\* The first loop over ("generated_command", "assigned_command") for one key;
\* a missing key reads as None and is stored as [].
normalize_command(px, key) ==
    IF key \notin DOMAIN px THEN <<>>
    ELSE IF px[key] # <<>> /\ looks_like_full(px[key], PixelGet(px, "address", None))
         THEN extract_data_bytes(px[key])
         ELSE px[key]

\* The loop over remap_commands: a dict with "data" is kept, a non-empty
\* legacy list (held here under "legacy") becomes a record, the rest is dropped.
normalize_remaps(remap_list) ==
    FoldLeft(LAMBDA normalized_remaps, item :
                 IF "data" \in DOMAIN item THEN Append(normalized_remaps, item)
                 ELSE IF "legacy" \in DOMAIN item /\ item.legacy # <<>>
                      THEN Append(normalized_remaps, full_to_compact_record(item.legacy))
                      ELSE normalized_remaps,
             <<>>, remap_list)

normalize_pixel(px) ==
    [key \in DOMAIN px \cup {"generated_command", "assigned_command",
                                "remap_commands", "remap_active"} |->
        IF key \in {"generated_command", "assigned_command"} THEN normalize_command(px, key)
        ELSE IF key = "remap_commands" THEN normalize_remaps(PixelGet(px, key, <<>>))
        ELSE IF key = "remap_active" THEN PixelGet(px, key, FALSE)
        ELSE px[key]]

\* _normalize_mapping_payloads(data), as the data it leaves behind.
normalize_mapping_payloads(data) ==
    IF "pixels" \in DOMAIN data
    THEN [data EXCEPT !.pixels = [i \in 1..Len(data.pixels) |-> normalize_pixel(data.pixels[i])]]
    ELSE data

MaxChunks == 5

\* Chunk k of a stored command: first, then bytes that tell chunks apart.
DataChunk(first, k) == <<first, 16 * k + 1, 16 * k + 2, 16 * k + 3, 16 * k + 4>>

\* n chunks of compact data whose first byte is first.
CompactCommand(first, n) ==
    FoldLeft(LAMBDA acc, k : acc \o DataChunk(IF k = 1 THEN first ELSE k, k),
             <<>>, RangeUp(1, n + 1))

\* The legacy full payload holding the same data: address, then a type byte
\* in front of every chunk.
FullCommand(address, type_code, first, n) ==
    FoldLeft(LAMBDA acc, k : (acc \o <<type_code>>) \o DataChunk(IF k = 1 THEN first ELSE k, k),
             <<address>>, RangeUp(1, n + 1))

\* Stored commands with the form each is held in.
StoredCommands(address) ==
    { [form |-> form, first |-> first, n |-> n] :
        form \in {"compact", "full"}, first \in {address, 128}, n \in 1..MaxChunks }

CommandOf(c, address) ==
    IF c.form = "full" THEN FullCommand(address, TYPE_10, c.first, c.n)
    ELSE CompactCommand(c.first, c.n)

\* Remap lists as a mapping file can hold them.
StoredRemaps ==
    { <<>>,
      << [address |-> 7, type_code |-> TYPE_90, data |-> <<0, 0, 0, 0, 1>>] >>,
      << [legacy |-> <<7, TYPE_90, 0, 0, 0, 0, 1>>], [legacy |-> <<>>] >> }

\* json.load of a mapping file with one pixel at address 3; the pixel may lack
\* its assigned_command.
LoadMapping ==
    /\ pc = "idle"
    /\ \E generated \in StoredCommands(3), assigned \in StoredCommands(3) \cup {[form |-> "none", first |-> 3, n |-> 1]},
          remaps \in StoredRemaps :
           /\ assigned.form = "none" \/ (assigned.first = 3 /\ assigned.n \in {1, generated.n})
           /\ LET base == [address |-> 3, type_code |-> TYPE_10,
                           generated_command |-> CommandOf(generated, 3),
                           remap_commands |-> remaps]
                  px == IF assigned.form = "none" THEN base
                           ELSE [key \in DOMAIN base \cup {"assigned_command"} |->
                                    IF key = "assigned_command" THEN CommandOf(assigned, 3)
                                    ELSE base[key]]
              IN  call_in' = [data |-> [segment_name |-> "top-left", pixels |-> <<px>>],
                              generated |-> generated, assigned |-> assigned]
    /\ call_out' = <<>>
    /\ pc' = "loaded"
    /\ UNCHANGED << ENABLE_HOLE_PIXEL, pipeline_vars, calib_vars, batch_vars, byte_vars,
                    app_vars >>

\* _normalize_mapping_payloads(data), and once more on its own result.
Normalize ==
    /\ pc \in {"loaded", "normalized"}
    /\ call_out' = Append(call_out,
                          normalize_mapping_payloads(IF pc = "loaded" THEN call_in.data
                                                     ELSE call_out[1]))
    /\ pc' = IF pc = "loaded" THEN "normalized" ELSE "normalized_twice"
    /\ UNCHANGED << ENABLE_HOLE_PIXEL, pipeline_vars, calib_vars, batch_vars, byte_vars,
                    app_vars, call_in >>

NextNormalize == LoadMapping \/ Normalize

SpecNormalize == Init /\ [][NextNormalize]_vars

-----------------------------------------------------------------------------
(* SpecSplit: parse_dump.split_frames_by_0x7E.                             *)

\* Body of the loop of split_frames_by_0x7E for one byte.
split_step(st, b) ==
    IF b = 126
    THEN IF ~st.inside_frame
         THEN [st EXCEPT !.inside_frame = TRUE, !.current = <<b>>]
         ELSE [frames |-> Append(st.frames, Append(st.current, b)),
               current |-> <<>>, inside_frame |-> FALSE]
    ELSE IF st.inside_frame
         THEN [st EXCEPT !.current = Append(@, b)]
         ELSE st

\* Variant: a frame left open at the end of the stream is returned too.
split_frames_keeping_open(byte_stream) ==
    LET st == FoldLeft(split_step,
                       [frames |-> <<>>, current |-> <<>>, inside_frame |-> FALSE],
                       byte_stream)
    IN  IF st.inside_frame THEN Append(st.frames, st.current) ELSE st.frames

split_frames_by_0x7E(byte_stream) ==
    FoldLeft(split_step,
             [frames |-> <<>>, current |-> <<>>, inside_frame |-> FALSE],
             byte_stream).frames

MaxStream == 6

\* The delimiter and two other bytes.
StreamBytes == {126, 129, 0}

SetStream ==
    /\ pc = "idle"
    /\ call_in' \in SeqsUpTo(StreamBytes, MaxStream)
    /\ pc' = "stream"
    /\ UNCHANGED << ENABLE_HOLE_PIXEL, pipeline_vars, calib_vars, batch_vars, byte_vars,
                    app_vars, call_out >>

SplitFrames ==
    /\ pc = "stream"
    /\ call_out' = split_frames_by_0x7E(call_in)
    /\ pc' = "split"
    /\ UNCHANGED << ENABLE_HOLE_PIXEL, pipeline_vars, calib_vars, batch_vars, byte_vars,
                    app_vars, call_in >>

NextSplit == SetStream \/ SplitFrames

SpecSplit == Init /\ [][NextSplit]_vars

-----------------------------------------------------------------------------
(* SpecPure: fill_matrix_from_segments twice on the same queue map.        *)

\* A second fill_matrix_from_segments(bit_queues) on the map object the
\* first call was given.
FillAgain ==
    /\ pc = "filled"
    /\ \E st \in {fill_matrix_from_segments(bit_queues)} :
           /\ call_out' = [matrix_bits |-> st.matrix_bits, matrix_types |-> st.matrix_types]
           /\ bit_queues' = st.bit_queues
    /\ pc' = "filled_again"
    /\ UNCHANGED << ENABLE_HOLE_PIXEL, matrix, queues, payloads, filled, requeued,
                    calib_vars, batch_vars, byte_vars, app_vars, call_in >>

NextPure == SetQueues \/ SetShortQueues \/ FillQueues \/ FillAgain

SpecPure == Init /\ [][NextPure]_vars

-----------------------------------------------------------------------------
(* SpecWindow: the calibrator's MainWindow and its handlers.               *)

\* a | b on bytes
OrByte(a, b) ==
    FoldLeft(LAMBDA acc, i :
                 acc + (2 ^ i) * (IF ((a \div (2 ^ i)) % 2) + ((b \div (2 ^ i)) % 2) > 0
                                  THEN 1 ELSE 0),
             0, RangeUp(0, 8))

\* command_codec.build_full_payload for an address and a type code that are
\* not None.
build_full_payload(address, type_code, data_bytes) ==
    IF data_bytes = <<>> THEN <<address, type_code>> \o Repeat(0, CHUNK_SIZE)
    ELSE FoldLeft(LAMBDA payload, i :
                      LET chunk == Slice(data_bytes, i, i + CHUNK_SIZE)
                      IN  (payload \o <<type_code>>)
                              \o (chunk \o Repeat(0, CHUNK_SIZE - Len(chunk))),
                  <<address>>, RangeStep(Len(data_bytes), CHUNK_SIZE))

\* The cells init_new_mapping's loops over range(13) x range(24) are
\* followed at, in loop order: a 0x90 cell and the corner cell (0x10).
MappingCells == << <<0, 0>>, <<12, 23>> >>

\* init_new_mapping: the PixelData list.
init_new_mapping(seg_name, frame_format) ==
    [n \in 1..Len(MappingCells) |->
        LET r == MappingCells[n][1]
            c == MappingCells[n][2]
            info == get_pixel_info(seg_name, r, c)
            cmd == generate_single_pixel_command(seg_name, r, c, frame_format)
            compact_cmd == extract_data_bytes(cmd)
        IN  [row |-> r, col |-> c, type_code |-> info.type, address |-> info.address,
             bit_index |-> info.bit_index,
             generated_command |-> compact_cmd, assigned_command |-> compact_cmd,
             status |-> "unknown", remap_commands |-> <<>>, remap_active |-> FALSE]]

\* PixelData(...) raises a validation error on the {"type": "hole", "address":
\* None} that get_pixel_info returns for a HOLE cell.
init_new_mapping_raises(seg_name) ==
    \E n \in 1..Len(MappingCells) :
        get_pixel_info(seg_name, MappingCells[n][1], MappingCells[n][2]).address = None

\* get_pixel_data(r, c) as an index into mapping.pixels, 0 for None.
get_pixel_data(w, r, c) ==
    IF \E n \in 1..Len(w.pixels) : w.pixels[n].row = r /\ w.pixels[n].col = c
    THEN CHOOSE n \in 1..Len(w.pixels) :
            /\ w.pixels[n].row = r /\ w.pixels[n].col = c
            /\ \A m \in 1..(n - 1) : ~(w.pixels[m].row = r /\ w.pixels[m].col = c)
    ELSE 0

\* PixelDetailPanel.update_data(p): the state of the mapping checkbox.
update_data(px) == px.remap_commands # <<>> /\ px.remap_active

\* _get_blank_payload_template: the window with the template cached.
\* w.logic_blank is what self.logic.generate_blank_payloads("raw-payload")
\* returns, which is the same on every call.
get_blank_payload_template(w) ==
    IF w.template_cached THEN w
    ELSE Let(w.logic_blank,
             LAMBDA blank :
                 [w EXCEPT !.template_cached = TRUE,
                           !.blank_payload_template = blank,
                           !.blank_payload_map =
                               FoldLeft(LAMBDA map, index :
                                            IF blank[index + 1] # <<>>
                                            THEN DictPut(map, blank[index + 1][1], index)
                                            ELSE map,
                                        EmptyDict, RangeUp(0, Len(blank)))])

\* Variant: the active payload is written into the cached template as well.
compose_into_template(w, active_payload) ==
    Let(get_blank_payload_template(w),
        LAMBDA w1 :
            LET template == w1.blank_payload_template
                addr == active_payload[1]
                idx  == w1.blank_payload_map[addr]
            IN  IF template = <<>> \/ active_payload = <<>>
                     \/ addr \notin DOMAIN w1.blank_payload_map
                THEN [w |-> w1, payloads |-> template]
                ELSE [w |-> [w1 EXCEPT !.blank_payload_template[idx + 1] = active_payload],
                      payloads |-> [template EXCEPT ![idx + 1] = active_payload]])

\* _compose_full_matrix_payloads: the window it leaves and the batch.
compose_full_matrix_payloads(w, active_payload) ==
    Let(get_blank_payload_template(w),
        LAMBDA w1 :
            LET template == w1.blank_payload_template
                addr == active_payload[1]
                idx  == w1.blank_payload_map[addr]
            IN  IF template = <<>>
                THEN [w |-> w1,
                      payloads |-> IF active_payload # <<>> THEN <<active_payload>> ELSE <<>>]
                ELSE IF active_payload = <<>> THEN [w |-> w1, payloads |-> template]
                ELSE IF addr \in DOMAIN w1.blank_payload_map
                     THEN [w |-> w1,
                           payloads |-> [template EXCEPT ![idx + 1] = active_payload]]
                     ELSE [w |-> w1, payloads |-> <<active_payload>> \o template])

\* _resolve_pixel_command: (address, type_code, data), <<>> for None.
resolve_pixel_command(px) ==
    IF px.remap_active /\ px.remap_commands # <<>>
    THEN LET alt == px.remap_commands[1]
         IN  IF alt.address = None \/ alt.type_code = None THEN <<>>
             ELSE <<alt.address, alt.type_code, alt.data>>
    ELSE IF px.address = None \/ px.type_code = None THEN <<>>
    ELSE LET data_bytes == IF px.assigned_command # <<>> THEN px.assigned_command
                           ELSE px.generated_command
         IN  IF data_bytes = <<>> THEN <<>>
             ELSE <<px.address, px.type_code, data_bytes>>

\* _merge_payload: the target buffer afterwards.
merge_payload(target_buffer, source_payload) ==
    IF target_buffer = <<>> \/ source_payload = <<>> THEN target_buffer
    ELSE LET extended == IF Len(source_payload) > Len(target_buffer)
                         THEN target_buffer
                                  \o Repeat(0, Len(source_payload) - Len(target_buffer))
                         ELSE target_buffer
         IN  [n \in 1..Len(extended) |->
                 IF n >= 2 /\ n <= Min(Len(extended), Len(source_payload))
                           /\ (n - 2) % 6 # 0
                 THEN OrByte(extended[n], source_payload[n])
                 ELSE extended[n]]

\* The loop of _build_pattern_payloads over mapping.pixels for one pixel.
merge_pixel(w1, parity, payload_buffers, px) ==
    LET command_info == resolve_pixel_command(px)
        idx == w1.blank_payload_map[command_info[1]]
    IN  IF px.status # "tested_ok" THEN payload_buffers
        ELSE IF parity # None /\ (px.row + px.col) % 2 # parity THEN payload_buffers
        ELSE IF command_info = <<>> THEN payload_buffers
        ELSE IF command_info[1] \notin DOMAIN w1.blank_payload_map THEN payload_buffers
        ELSE IF idx >= Len(payload_buffers) THEN payload_buffers
        ELSE [payload_buffers EXCEPT ![idx + 1] =
                 merge_payload(@, build_full_payload(command_info[1], command_info[2],
                                                     command_info[3]))]

\* _build_pattern_payloads: the window it leaves and the payloads.
build_pattern_payloads(w, mode) ==
    Let(get_blank_payload_template(w),
        LAMBDA w1 :
            LET template == w1.blank_payload_template
                parity == IF mode = "checker" THEN 0
                          ELSE IF mode = "checker_inv" THEN 1 ELSE None
            IN  IF template = <<>> THEN [w |-> w1, payloads |-> <<>>]
                ELSE IF mode = "off" THEN [w |-> w1, payloads |-> template]
                ELSE [w |-> w1,
                      payloads |-> FoldLeft(LAMBDA payload_buffers, px :
                                                merge_pixel(w1, parity, payload_buffers, px),
                                            template, w1.pixels)])

pattern_cycle == <<"off", "fill", "checker", "checker_inv">>

\* Variant: the alternate command is added to the target's list.
mark_mismatch_appending(pixels, n, target, alt_command) ==
    LET remapped == [pixels EXCEPT ![target].remap_commands = Append(@, alt_command),
                                   ![target].remap_active = FALSE]
    IN  [remapped EXCEPT ![n].status = "tested_fail",
                         ![n].assigned_command = alt_command.data]

\* The assignments of on_mark_mismatch to the target pixel and to pixel n.
mark_mismatch(pixels, n, target, alt_command) ==
    LET remapped == [pixels EXCEPT ![target].remap_commands = <<alt_command>>,
                                   ![target].remap_active = FALSE]
    IN  [remapped EXCEPT ![n].status = "tested_fail",
                         ![n].assigned_command = alt_command.data]

\* Variant: the cycle is walked backwards.
next_pattern_mode_backwards(w) ==
    pattern_cycle[(((CHOOSE i \in 1..Len(pattern_cycle) : pattern_cycle[i] = w.pattern_mode)
                    + Len(pattern_cycle) - 2) % Len(pattern_cycle)) + 1]

next_pattern_mode(w) ==
    IF \E i \in 1..Len(pattern_cycle) : pattern_cycle[i] = w.pattern_mode
    THEN LET idx == CHOOSE i \in 1..Len(pattern_cycle) : pattern_cycle[i] = w.pattern_mode
         IN  pattern_cycle[(idx % Len(pattern_cycle)) + 1]
    ELSE pattern_cycle[1]

MaxEvents == 4

\* Segments a config.json names, and bit indices typed in by hand.
WindowSegments == {"top-left", "bottom-right"}
ManualBitIndices == {-1, 9}

\* MainWindow.__init__ without a mapping file: init_new_mapping, then
\* connect_transport, which ends connected or in simulation.  events counts
\* the handlers run so far.
NewWindow ==
    /\ pc = "idle"
    /\ \E seg_name \in WindowSegments, frame_format \in {"raw-payload", "A5-frame"},
          connected \in BOOLEAN :
           IF init_new_mapping_raises(seg_name)
           THEN /\ pc' = "init_failed"
                /\ UNCHANGED << app_vars, call_vars >>
           ELSE /\ window' = [frame_format |-> frame_format,
                              segment_name |-> seg_name,
                              pixels |-> init_new_mapping(seg_name, frame_format),
                              current_pixel |-> <<>>,
                              pattern_mode |-> "off",
                              template_cached |-> FALSE,
                              blank_payload_template |-> <<>>,
                              blank_payload_map |-> EmptyDict,
                              mapping_toggle |-> FALSE,
                              logic_blank |-> generate_blank_payloads("raw-payload"),
                              events |-> 0]
                /\ transport' = [simulation |-> ~connected, serial_master |-> connected,
                                 master |-> connected, bus |-> <<>>]
                /\ call_in' = [handler |-> "init_new_mapping", arg |-> <<>>]
                /\ call_out' = [payloads |-> <<>>, sent |-> FALSE]
                /\ pc' = "window"
    /\ UNCHANGED << ENABLE_HOLE_PIXEL, pipeline_vars, calib_vars, batch_vars, byte_vars >>

\* on_pixel_selected(r, c)
OnPixelSelected ==
    /\ pc = "window" /\ window.events < MaxEvents
    /\ \E n \in 1..Len(MappingCells) :
           /\ window' = [window EXCEPT !.current_pixel = MappingCells[n],
                                       !.mapping_toggle = update_data(window.pixels[n]),
                                       !.events = @ + 1]
           /\ call_in' = [handler |-> "on_pixel_selected", arg |-> MappingCells[n]]
    /\ call_out' = [payloads |-> <<>>, sent |-> FALSE]
    /\ UNCHANGED << pc, transport >>
    /\ UNCHANGED << ENABLE_HOLE_PIXEL, pipeline_vars, calib_vars, batch_vars, byte_vars >>

\* The operator clicks the mapping checkbox, enabled while the pixel shown
\* has an alternate command.
OnMappingToggled ==
    /\ pc = "window" /\ window.events < MaxEvents
    /\ window.current_pixel # <<>>
    /\ LET n == get_pixel_data(window, window.current_pixel[1], window.current_pixel[2])
       IN  window.pixels[n].remap_commands # <<>>
    /\ window' = [window EXCEPT !.mapping_toggle = ~@, !.events = @ + 1]
    /\ call_in' = [handler |-> "mapping_toggle", arg |-> <<>>]
    /\ call_out' = [payloads |-> <<>>, sent |-> FALSE]
    /\ UNCHANGED << pc, transport >>
    /\ UNCHANGED << ENABLE_HOLE_PIXEL, pipeline_vars, calib_vars, batch_vars, byte_vars >>

\* PixelDetailPanel.on_test_clicked, then on_test_command(cmd_bytes).
OnTestCommand ==
    /\ pc = "window" /\ window.events < MaxEvents
    /\ window.current_pixel # <<>>
    /\ LET n  == get_pixel_data(window, window.current_pixel[1], window.current_pixel[2])
           px == window.pixels[n]
           cmd_bytes ==
               IF window.mapping_toggle
               THEN build_full_payload(px.remap_commands[1].address,
                                       px.remap_commands[1].type_code,
                                       px.remap_commands[1].data)
               ELSE build_full_payload(px.address, px.type_code, px.assigned_command)
       IN  /\ window.mapping_toggle => px.remap_commands # <<>>
           /\ \E composed \in {compose_full_matrix_payloads(window, cmd_bytes)} :
              \E fail_at \in {0, 1} :
              \E sent \in {send_payload_batch(transport, composed.payloads, fail_at)} :
                  LET updated == /\ sent.result
                                 /\ window.mapping_toggle /\ px.remap_commands # <<>>
                                 /\ ~px.remap_active
                  IN  /\ composed.payloads # <<>>
                      /\ window' = [composed.w EXCEPT
                                        !.pixels[n].remap_active = IF updated THEN TRUE ELSE @,
                                        !.mapping_toggle = IF updated THEN TRUE ELSE @,
                                        !.events = @ + 1]
                      /\ transport' = [transport EXCEPT !.bus = sent.issued]
                      /\ call_in' = [handler |-> "on_test_command", arg |-> cmd_bytes]
                      /\ call_out' = [payloads |-> composed.payloads, sent |-> sent.result]
    /\ UNCHANGED pc
    /\ UNCHANGED << ENABLE_HOLE_PIXEL, pipeline_vars, calib_vars, batch_vars, byte_vars >>

\* on_confirm_ok
OnConfirmOk ==
    /\ pc = "window" /\ window.events < MaxEvents
    /\ window.current_pixel # <<>>
    /\ LET n == get_pixel_data(window, window.current_pixel[1], window.current_pixel[2])
       IN  window' = [window EXCEPT !.pixels[n].status = "tested_ok",
                                    !.mapping_toggle = update_data(window.pixels[n]),
                                    !.events = @ + 1]
    /\ call_in' = [handler |-> "on_confirm_ok", arg |-> <<>>]
    /\ call_out' = [payloads |-> <<>>, sent |-> FALSE]
    /\ UNCHANGED << pc, transport >>
    /\ UNCHANGED << ENABLE_HOLE_PIXEL, pipeline_vars, calib_vars, batch_vars, byte_vars >>

\* on_mark_mismatch with the dialog accepted on the pixel chosen there.
OnMarkMismatch ==
    /\ pc = "window" /\ window.events < MaxEvents
    /\ window.current_pixel # <<>>
    /\ \E selected \in 1..Len(MappingCells) :
           LET n  == get_pixel_data(window, window.current_pixel[1], window.current_pixel[2])
               px == window.pixels[n]
               target == get_pixel_data(window, MappingCells[selected][1],
                                        MappingCells[selected][2])
               current_command == px.assigned_command
               alt_command == [address |-> px.address, type_code |-> px.type_code,
                               data |-> current_command]
               marked == mark_mismatch(window.pixels, n, target, alt_command)
           IN  /\ window' = IF current_command = <<>>
                            THEN [window EXCEPT !.events = @ + 1]
                            ELSE [window EXCEPT !.pixels = marked,
                                                !.mapping_toggle = update_data(marked[n]),
                                                !.events = @ + 1]
               /\ call_in' = [handler |-> "on_mark_mismatch", arg |-> MappingCells[selected]]
    /\ call_out' = [payloads |-> <<>>, sent |-> FALSE]
    /\ UNCHANGED << pc, transport >>
    /\ UNCHANGED << ENABLE_HOLE_PIXEL, pipeline_vars, calib_vars, batch_vars, byte_vars >>

\* on_reset_status
OnResetStatus ==
    /\ pc = "window" /\ window.events < MaxEvents
    /\ window.current_pixel # <<>>
    /\ LET n == get_pixel_data(window, window.current_pixel[1], window.current_pixel[2])
       IN  window' = [window EXCEPT
                         !.pixels[n].status = "unknown",
                         !.pixels[n].assigned_command = window.pixels[n].generated_command,
                         !.pixels[n].remap_commands = <<>>,
                         !.pixels[n].remap_active = FALSE,
                         !.mapping_toggle = FALSE,
                         !.events = @ + 1]
    /\ call_in' = [handler |-> "on_reset_status", arg |-> <<>>]
    /\ call_out' = [payloads |-> <<>>, sent |-> FALSE]
    /\ UNCHANGED << pc, transport >>
    /\ UNCHANGED << ENABLE_HOLE_PIXEL, pipeline_vars, calib_vars, batch_vars, byte_vars >>

\* on_bit_index_changed(new_index)
OnBitIndexChanged ==
    /\ pc = "window" /\ window.events < MaxEvents
    /\ window.current_pixel # <<>>
    /\ \E new_index \in ManualBitIndices :
           LET n  == get_pixel_data(window, window.current_pixel[1], window.current_pixel[2])
               px == window.pixels[n]
               cmd == generate_command_from_bit_index(window.segment_name, px.address,
                                                      px.type_code, new_index,
                                                      window.frame_format)
           IN  \E compact \in {extract_data_bytes(cmd)} :
                   /\ window' = [window EXCEPT !.pixels[n].bit_index = new_index,
                                               !.pixels[n].generated_command = compact,
                                               !.pixels[n].assigned_command = compact,
                                               !.mapping_toggle = update_data(px),
                                               !.events = @ + 1]
                   /\ call_in' = [handler |-> "on_bit_index_changed", arg |-> <<new_index>>]
    /\ call_out' = [payloads |-> <<>>, sent |-> FALSE]
    /\ UNCHANGED << pc, transport >>
    /\ UNCHANGED << ENABLE_HOLE_PIXEL, pipeline_vars, calib_vars, batch_vars, byte_vars >>

\* on_pattern_toggle
OnPatternToggle ==
    /\ pc = "window" /\ window.events < MaxEvents
    /\ LET next_mode == next_pattern_mode(window)
       IN  \E built \in {build_pattern_payloads(window, next_mode)} :
           \E fail_at \in {0, 1} :
           \E sent \in {send_payload_batch(transport, built.payloads, fail_at)} :
               /\ window' = [built.w EXCEPT
                                 !.pattern_mode = IF built.payloads # <<>> /\ sent.result
                                                  THEN next_mode ELSE @,
                                 !.events = @ + 1]
               /\ transport' = IF built.payloads # <<>>
                               THEN [transport EXCEPT !.bus = sent.issued]
                               ELSE transport
               /\ call_in' = [handler |-> "on_pattern_toggle", arg |-> <<>>]
               /\ call_out' = [payloads |-> built.payloads,
                               sent |-> built.payloads # <<>> /\ sent.result]
    /\ UNCHANGED pc
    /\ UNCHANGED << ENABLE_HOLE_PIXEL, pipeline_vars, calib_vars, batch_vars, byte_vars >>

NextWindow ==
    \/ NewWindow
    \/ OnPixelSelected
    \/ OnMappingToggled
    \/ OnTestCommand
    \/ OnConfirmOk
    \/ OnMarkMismatch
    \/ OnResetStatus
    \/ OnBitIndexChanged
    \/ OnPatternToggle

SpecWindow == Init /\ [][NextWindow]_vars

-----------------------------------------------------------------------------
(* SpecBits: the byte-level functions called on their own.                 *)

\* Longest bit list enumerated in full.
MaxBits == 9

\* Every bit list of exactly n bits.
BitLists(n) == [1..n -> {0, 1}]

\* One 40-bit chunk with a single bit set.
SingleBitChunk(pos) == [i \in 1..GROUP_BITS |-> IF i = pos THEN 1 ELSE 0]

InputBitLists ==
    UNION { BitLists(n) : n \in 0..MaxBits }
    \cup { SingleBitChunk(pos) : pos \in 1..GROUP_BITS }
    \cup { Repeat(1, GROUP_BITS), Repeat(1, GROUP_BITS + 1) }

SetBits ==
    /\ pc = "idle"
    /\ in_bits' \in InputBitLists
    /\ pc' = "bits"
    /\ UNCHANGED << ENABLE_HOLE_PIXEL, pipeline_vars, calib_vars, batch_vars, out_bytes, app_vars, call_vars >>

PackBits ==
    /\ pc = "bits"
    /\ out_bytes' = bits_to_data_bytes(in_bits)
    /\ pc' = "bytes"
    /\ UNCHANGED << ENABLE_HOLE_PIXEL, pipeline_vars, calib_vars, batch_vars, in_bits, app_vars, call_vars >>

SetByte ==
    /\ pc = "idle"
    /\ \E b \in 0..255 : out_bytes' = <<b>>
    /\ pc' = "byte"
    /\ UNCHANGED << ENABLE_HOLE_PIXEL, pipeline_vars, calib_vars, batch_vars, in_bits, app_vars, call_vars >>

\* reverse_byte applied to the last byte obtained; out_bytes keeps b,
\* reverse_byte(b) and reverse_byte(reverse_byte(b)).
ReverseByte ==
    /\ pc \in {"byte", "reversed"}
    /\ out_bytes' = Append(out_bytes, reverse_byte(out_bytes[Len(out_bytes)]))
    /\ pc' = IF pc = "byte" THEN "reversed" ELSE "reversed_twice"
    /\ UNCHANGED << ENABLE_HOLE_PIXEL, pipeline_vars, calib_vars, batch_vars, in_bits, app_vars, call_vars >>

NextBits == SetBits \/ PackBits \/ SetByte \/ ReverseByte

SpecBits == Init /\ [][NextBits]_vars

-----------------------------------------------------------------------------
(* Vocabulary of the properties                                            *)

AllCells == (0..(MATRIX_ROWS - 1)) \X (0..(MATRIX_COLS - 1))

InSegment(seg, x) ==
    /\ seg.row_start <= x[1] /\ x[1] < seg.row_end
    /\ seg.col_start <= x[2] /\ x[2] < seg.col_end

SegmentOfCell(x) == SEGMENTS[CHOOSE s \in 1..Len(SEGMENTS) : InSegment(SEGMENTS[s], x)]

TypeOfCell(x) ==
    LET seg == SegmentOfCell(x)
    IN  logical_type_for_segment_pixel(x[1] - seg.row_start, x[2] - seg.col_start)

KeyOfCell(x) ==
    LET seg == SegmentOfCell(x)
    IN  IF TypeOfCell(x) = TYPE_90 THEN <<seg.addr_90, TYPE_90>>
                                   ELSE <<seg.addr_10, TYPE_10>>

\* Rows outer, columns inner: ascending in a top segment, descending in a
\* bottom one.
VisitedBefore(seg, y, x) ==
    IF seg.row_start = 0
    THEN y[1] < x[1] \/ (y[1] = x[1] /\ y[2] < x[2])
    ELSE y[1] > x[1] \/ (y[1] = x[1] /\ y[2] > x[2])

\* Number of cells of x's queue visited before x in that order.
ScanRank(x) ==
    LET seg == SegmentOfCell(x)
    IN  Cardinality({ y \in (seg.row_start..(seg.row_end - 1))
                            \X (seg.col_start..(seg.col_end - 1)) :
                        /\ TypeOfCell(y) = TypeOfCell(x)
                        /\ VisitedBefore(seg, y, x) })

LitCells(m) == { x \in AllCells : m[x[1]][x[2]] = 1 }

HoleCells == { x \in AllCells : TypeOfCell(x) = None }

\* q[i] for a queue read past its end as 0
BitAt(q, i) == IF i <= Len(q) THEN q[i] ELSE 0

CeilDiv(a, b) == (a + b - 1) \div b

\* The cells whose place in the scan a state is examined at: the probed
\* cells, and the lit cell of a matrix with a single one.
CheckedCells(m) ==
    { x \in ProbeCells \cup (IF Cardinality(LitCells(m)) = 1 THEN LitCells(m) ELSE {}) :
        TypeOfCell(x) # None }

ExactLengths(qs) ==
    /\ DOMAIN qs = AllSegmentKeys
    /\ \A key \in AllSegmentKeys : Len(qs[key]) = TypeCount(key[2])

NumGroups(p) == (Len(p) - 1) \div 6

HeaderBytes(p) == { p[2 + 6 * k] : k \in 0..(NumGroups(p) - 1) }

PayloadsAt(addr) == SelectSeq(payloads, LAMBDA p : p[1] = addr)

\* Number of 40-bit groups of the queue (addr, ptype) of the input; 0 without it.
GroupsOf(addr, ptype) ==
    IF <<addr, ptype>> \in DOMAIN queues
    THEN CeilDiv(Len(queues[<<addr, ptype>>]), GROUP_BITS)
    ELSE 0

UsedAddrs == { key[1] : key \in DOMAIN queues }

\* Number of bits set in the data bytes (not address, not group headers).
DataBitsSet(p) ==
    Cardinality({ ki \in { k \in 2..Len(p) : (k - 2) % 6 # 0 } \X (0..7) :
                    (p[ki[1]] \div (2 ^ ki[2])) % 2 = 1 })

IsHolePixel == ENABLE_HOLE_PIXEL /\ pixel.seg_row = 12 /\ pixel.seg_col = 23

-----------------------------------------------------------------------------
(* Properties                                                              *)

\* C1: encode-decode identity.  A matrix whose HOLE cells are 0, encoded to
\* queues and payloads and decoded again, comes back unchanged, and what is
\* left in the decoder's queues is the zero padding only.
C1_EncodeDecodeIdentity ==
    (pc = "decoded" /\ \A x \in HoleCells : matrix[x[1]][x[2]] = 0)
        => /\ filled.matrix_bits = matrix
           /\ \A key \in DOMAIN bit_queues :
                  \A i \in 1..Len(bit_queues[key]) : bit_queues[key][i] = 0

C1_Witness ==
    /\ pc = "decoded"
    /\ ~ENABLE_HOLE_PIXEL
    /\ matrix = FullMatrix
    /\ filled.matrix_bits = FullMatrix
    /\ Len(bit_queues[<<1, TYPE_10>>]) = 4

\* C2: decode is a left inverse on queues.  A queue map with exactly one bit
\* per non-HOLE cell, decoded and encoded again, is the same queue map.
C2_DecodeLeftInverse ==
    (pc = "requeued" /\ ExactLengths(queues)) => requeued = queues

C2_Witness ==
    /\ pc = "requeued"
    /\ ENABLE_HOLE_PIXEL
    /\ ExactLengths(queues)
    /\ Len(queues[<<1, TYPE_10>>]) = 155
    /\ queues[<<1, TYPE_10>>][155] = 1
    /\ requeued = queues

\* C3: single-bit payload isolation.  The command generated for a non-HOLE
\* pixel has exactly one data bit set and carries the address that
\* get_pixel_info reports for the pixel.
C3_SingleBitIsolation ==
    (pc = "informed" /\ ~IsHolePixel)
        => /\ DataBitsSet(calib.cmd) = 1
           /\ calib.cmd[1] = calib.info.address

C3_Witness ==
    /\ pc = "informed"
    /\ pixel.segment_name = "bottom-right" /\ pixel.seg_row = 12 /\ pixel.seg_col = 0
    /\ calib.info.address = 5
    /\ calib.cmd[1] = 5
    /\ DataBitsSet(calib.cmd) = 1

\* C4: bit-index consistency.  The bit_index that get_pixel_info reports for
\* a non-HOLE pixel is the 0-based offset of the pixel's bit in its
\* (address, type) queue as build_bit_queues_from_matrix produces it.
C4_BitIndexConsistency ==
    (pc = "informed" /\ ~IsHolePixel)
        => \A s \in {get_segment_info(pixel.segment_name)} :
           \A qs \in {build_bit_queues_from_matrix(
                          single_pixel_matrix(SEGMENTS[s].row_start + pixel.seg_row,
                                              SEGMENTS[s].col_start + pixel.seg_col))} :
               LET q == qs[<<calib.info.address, calib.info.type>>]
               IN  /\ 0 <= calib.info.bit_index
                   /\ calib.info.bit_index < Len(q)
                   /\ q[calib.info.bit_index + 1] = 1

\* C5: bit accounting.  Encoding gives exactly the eight queues of the four
\* segments, each as long as its segment has cells of its type, 1248 bits in
\* all with the hole disabled and 1244 with it enabled.
C5_BitAccounting ==
    pc = "encoded"
        => /\ DOMAIN queues = AllSegmentKeys
           /\ Cardinality(DOMAIN queues) = 8
           /\ \A key \in DOMAIN queues : Len(queues[key]) = TypeCount(key[2])
           /\ Cardinality(UNION { {key} \X (1..Len(queues[key])) : key \in DOMAIN queues })
                = (IF ENABLE_HOLE_PIXEL THEN 1244 ELSE 1248)

C5_Witness ==
    /\ pc = "encoded"
    /\ ENABLE_HOLE_PIXEL
    /\ matrix = FullMatrix
    /\ Len(queues[<<5, TYPE_90>>]) = 156
    /\ Len(queues[<<1, TYPE_10>>]) = 155

\* C6: descending address order.  The address bytes of the payloads, in
\* emission order, never increase.
C6_DescendingAddresses ==
    pc = "packed_input"
        => \A i \in 1..(Len(payloads) - 1) : payloads[i][1] >= payloads[i + 1][1]

C6_Witness ==
    /\ pc = "packed_input"
    /\ Len(payloads) >= 4
    /\ payloads[1][1] = 8
    /\ payloads[2][1] = 7
    /\ payloads[Len(payloads)][1] = 7

\* C7: group structure.  Every payload is an address byte followed by one to
\* four six-byte groups, each starting with 0x90 or 0x10.
C7_GroupStructure ==
    pc = "packed_input"
        => \A i \in 1..Len(payloads) :
               /\ (Len(payloads[i]) - 1) % 6 = 0
               /\ 1 <= NumGroups(payloads[i])
               /\ NumGroups(payloads[i]) <= 4
               /\ HeaderBytes(payloads[i]) \subseteq {TYPE_90, TYPE_10}

C7_Witness ==
    /\ pc = "packed_input"
    /\ \E i \in 1..Len(payloads) : NumGroups(payloads[i]) = 4
    /\ \E i \in 1..Len(payloads) : NumGroups(payloads[i]) = 1
    /\ \E key \in DOMAIN queues : queues[key] = <<>>

\* C8 as stated: an address's groups, T90 then T10, form one stream that is
\* cut into payloads of four groups, so that the address yields
\* ceil((g90 + g10) / 4) payloads and only its last payload may be short.
C8_PerAddressPacking ==
    pc = "packed_input"
        => \A addr \in UsedAddrs :
               LET ps == PayloadsAt(addr)
               IN  /\ Len(ps) = CeilDiv(GroupsOf(addr, TYPE_90) + GroupsOf(addr, TYPE_10),
                                        GROUPS_PER_PAYLOAD)
                   /\ \A i \in 1..(Len(ps) - 1) : NumGroups(ps[i]) = GROUPS_PER_PAYLOAD

\* C8 as amended: each (address, type) queue is cut on its own.  An address
\* yields ceil(g90 / 4) payloads of T90 groups followed by ceil(g10 / 4)
\* payloads of T10 groups; no payload mixes the two types, and only the last
\* payload of each queue may hold fewer than four groups.
C8_PerQueuePacking ==
    pc = "packed_input"
        => \A addr \in UsedAddrs :
               LET ps  == PayloadsAt(addr)
                   g90 == GroupsOf(addr, TYPE_90)
                   g10 == GroupsOf(addr, TYPE_10)
                   n90 == CeilDiv(g90, GROUPS_PER_PAYLOAD)
                   n10 == CeilDiv(g10, GROUPS_PER_PAYLOAD)
               IN  /\ Len(ps) = n90 + n10
                   /\ \A i \in 1..Len(ps) :
                          /\ HeaderBytes(ps[i]) = {IF i <= n90 THEN TYPE_90 ELSE TYPE_10}
                          /\ NumGroups(ps[i]) =
                                IF i = n90 THEN g90 - GROUPS_PER_PAYLOAD * (n90 - 1)
                                ELSE IF i = n90 + n10
                                     THEN g10 - GROUPS_PER_PAYLOAD * (n10 - 1)
                                ELSE GROUPS_PER_PAYLOAD

C8_Witness ==
    /\ pc = "packed_input"
    /\ GroupsOf(7, TYPE_90) = 1
    /\ GroupsOf(7, TYPE_10) = 5
    /\ Len(PayloadsAt(7)) = 3
    /\ NumGroups(PayloadsAt(7)[1]) = 1
    /\ NumGroups(PayloadsAt(7)[2]) = 4
    /\ NumGroups(PayloadsAt(7)[3]) = 1

\* C9: pixel-type layout.  The type of a segment-local cell is HOLE exactly
\* at (12, 23) with the hole enabled; otherwise it alternates 0x90 / 0x10 by
\* row above row 12 and by column in row 12.
C9_PixelTypeLayout ==
    pc = "typed"
        => /\ (calib.ptype = None) <=>
                  (ENABLE_HOLE_PIXEL /\ pixel.seg_row = 12 /\ pixel.seg_col = 23)
           /\ (calib.ptype # None /\ pixel.seg_row < 12)
                  => calib.ptype = (IF pixel.seg_row % 2 = 0 THEN TYPE_90 ELSE TYPE_10)
           /\ (calib.ptype # None /\ pixel.seg_row = 12)
                  => calib.ptype = (IF pixel.seg_col % 2 = 0 THEN TYPE_90 ELSE TYPE_10)

C9_Witness ==
    /\ pc = "typed"
    /\ pixel.seg_row = 12
    /\ pixel.seg_col = 21
    /\ calib.ptype = TYPE_10

BitOfByte(b, k) == (b \div (2 ^ k)) % 2

\* C11: bit packing.  bits_to_data_bytes returns ceil(n / 8) bytes in
\* 0..255; bit k of byte j is bits[8j + k], missing trailing bits read as 0;
\* a 40-bit chunk gives 5 bytes and the RuntimeError of
\* build_column_payloads cannot happen.
C11_BitPacking ==
    pc = "bytes"
        => /\ Len(out_bytes) = CeilDiv(Len(in_bits), 8)
           /\ \A j \in 1..Len(out_bytes) :
                  /\ out_bytes[j] \in 0..255
                  /\ \A k \in 0..7 :
                         BitOfByte(out_bytes[j], k) = BitAt(in_bits, 8 * (j - 1) + k + 1)
           /\ Len(in_bits) = GROUP_BITS => Len(out_bytes) = 5
           /\ ~column_payloads_raises(DictPut(EmptyDict, <<7, TYPE_90>>, in_bits))

C11_Witness ==
    /\ pc = "bytes"
    /\ in_bits = SingleBitChunk(10)
    /\ out_bytes = <<0, 2, 0, 0, 0>>

\* C12: byte reversal involution.  reverse_byte(b) is a byte and
\* reverse_byte(reverse_byte(b)) = b, for every byte b.
C12_ReverseInvolution ==
    /\ pc \in {"reversed", "reversed_twice"} => out_bytes[2] \in 0..255
    /\ pc = "reversed_twice" => out_bytes[3] = out_bytes[1]

C12_Witness ==
    /\ pc = "reversed_twice"
    /\ out_bytes = <<127, 254, 127>>

\* What a decoder reads of a line: the address and the body of a raw
\* payload, or of the payload inside a frame.
IsFrameLine(line) ==
    /\ Len(line) >= 5
    /\ line[1] = 126 /\ line[2] = 165 /\ line[Len(line)] = 126

UnitOfPayload(line) == <<line[1], SubSeq(line, 2, Len(line))>>

UnitOfFrame(line) == <<line[3], SubSeq(line, 4, Len(line) - 2)>>

UnitsOf(batch) ==
    LET kept == SelectSeq(batch, LAMBDA line : Len(line) >= 2)
    IN  [n \in 1..Len(kept) |->
            IF IsFrameLine(kept[n]) THEN UnitOfFrame(kept[n]) ELSE UnitOfPayload(kept[n])]

\* Number of groups accepted from a body: the longest run of complete
\* six-byte groups, from the start, whose headers are all 0x90 or 0x10.
AcceptedGroups(body) ==
    CHOOSE k \in 0..(Len(body) \div 6) :
        /\ \A i \in 0..(k - 1) : body[6 * i + 1] \in {TYPE_90, TYPE_10}
        /\ k < Len(body) \div 6 => body[6 * k + 1] \notin {TYPE_90, TYPE_10}

\* The accepted groups of a sequence of units, as (unit, group) index pairs.
AcceptedOf(units) ==
    UNION { { <<n, i>> : i \in 0..(AcceptedGroups(units[n][2]) - 1) } : n \in 1..Len(units) }

GroupKey(units, g) == <<units[g[1]][1], units[g[1]][2][6 * g[2] + 1]>>

GroupBefore(g, h) == g[1] < h[1] \/ (g[1] = h[1] /\ g[2] < h[2])

\* qs holds, for each key, 40 bits per accepted group of that key, the
\* groups in the order of the units and each group's bits in wire order.
DecodesAs(qs, units) ==
    LET acc == AcceptedOf(units)
    IN  /\ DOMAIN qs = { GroupKey(units, g) : g \in acc }
        /\ \A key \in DOMAIN qs :
               Len(qs[key]) = GROUP_BITS * Cardinality({ g \in acc : GroupKey(units, g) = key })
        /\ \A g \in acc :
               LET key    == GroupKey(units, g)
                   offset == GROUP_BITS * Cardinality({ h \in acc : /\ GroupKey(units, h) = key
                                                                    /\ GroupBefore(h, g) })
                   body   == units[g[1]][2]
               IN  \A b \in 0..(GROUP_BITS - 1) :
                       qs[key][offset + b + 1]
                           = BitOfByte(body[6 * g[2] + 2 + (b \div 8)], b % 8)

\* C16: soft per-payload decode failure.  From each payload, and from each
\* frame, the decoder takes the longest prefix of complete groups with known
\* headers, 40 bits per group, keeps them, and goes on with the next line.
C16_SoftDecodeFailure ==
    pc \in {"batch_decoded", "merged"}
        => /\ DecodesAs(queues_payloads, [n \in 1..Len(payloads) |-> UnitOfPayload(payloads[n])])
           /\ DecodesAs(queues_frames, [n \in 1..Len(in_frames) |-> UnitOfFrame(in_frames[n])])

C16_Witness ==
    /\ pc = "batch_decoded"
    /\ payloads = << <<7>> \o GroupC \o GroupBad \o GroupA, <<7>> \o GroupB \o GroupA >>
    /\ Len(queues_payloads[<<7, TYPE_90>>]) = 2 * GROUP_BITS
    /\ Len(queues_payloads[<<7, TYPE_10>>]) = GROUP_BITS

QueueOf(qs, key) == IF key \in DOMAIN qs THEN qs[key] ELSE <<>>

\* Number of ones among the first n bits of q.
OnesIn(q, n) == Cardinality({ i \in 1..Min(n, Len(q)) : q[i] = 1 })

\* The cell at segment-local (12, 23) of each segment.
CornerCells ==
    { <<SEGMENTS[n].row_start + 12, SEGMENTS[n].col_start + 23>> : n \in 1..Len(SEGMENTS) }

\* C17: short-queue decoding.  Whatever queues are missing or short, the
\* result is a full 26x48 matrix of bits; a cell is lit exactly when its
\* queue holds a 1 at the cell's place in the scan, and every cell met
\* after its queue ran out is 0.
C17_ShortQueueDecoding ==
    pc = "filled"
        => /\ DOMAIN filled.matrix_bits = 0..(MATRIX_ROWS - 1)
           /\ \A r \in 0..(MATRIX_ROWS - 1) :
                  /\ DOMAIN filled.matrix_bits[r] = 0..(MATRIX_COLS - 1)
                  /\ \A c \in 0..(MATRIX_COLS - 1) : filled.matrix_bits[r][c] \in {0, 1}
           /\ \A x \in LitCells(filled.matrix_bits) :
                  /\ TypeOfCell(x) # None
                  /\ ScanRank(x) < Len(QueueOf(queues, KeyOfCell(x)))
                  /\ QueueOf(queues, KeyOfCell(x))[ScanRank(x) + 1] = 1
           /\ \A key \in AllSegmentKeys :
                  Cardinality({ x \in LitCells(filled.matrix_bits) : KeyOfCell(x) = key })
                      = OnesIn(QueueOf(queues, key), TypeCount(key[2]))

C17_Witness ==
    /\ pc = "filled"
    /\ <<7, TYPE_90>> \notin DOMAIN queues
    /\ Len(QueueOf(queues, <<3, TYPE_10>>)) = SEG_COLS + 1
    /\ \E x \in LitCells(filled.matrix_bits) :
           KeyOfCell(x) = <<3, TYPE_10>> /\ ScanRank(x) = SEG_COLS
    /\ \E y \in AllCells \ LitCells(filled.matrix_bits) :
           KeyOfCell(y) = <<3, TYPE_10>> /\ ScanRank(y) = SEG_COLS + 3
    /\ \A y \in AllCells :
           KeyOfCell(y) = <<7, TYPE_90>> => filled.matrix_bits[y[1]][y[2]] = 0

\* C18: HOLE invariant.  With the hole enabled the cell at segment-local
\* (12, 23) of every segment appends no bit on encode, whatever the matrix
\* holds there, takes no bit on decode, and comes back 0 with type None; with
\* the hole disabled no cell has type None and those cells carry their bit.
C18_HoleInvariant ==
    /\ pc \in {"encoded", "packed", "parsed", "decoded"}
           => /\ \A key \in DOMAIN queues :
                     Len(queues[key]) = (SEG_ROWS * SEG_COLS) \div 2
                                        - (IF ENABLE_HOLE_PIXEL /\ key[2] = TYPE_10 THEN 1 ELSE 0)
              /\ Cardinality(UNION { {key} \X { i \in 1..Len(queues[key]) : queues[key][i] = 1 } :
                                       key \in DOMAIN queues })
                     = Cardinality(LitCells(matrix)
                                   \ (IF ENABLE_HOLE_PIXEL THEN CornerCells ELSE {}))
    /\ pc = "decoded"
           => /\ \A key \in DOMAIN queues :
                     Len(bit_queues[key])
                         = GROUP_BITS * CeilDiv(Len(queues[key]), GROUP_BITS) - Len(queues[key])
              /\ \A x \in AllCells :
                     (filled.matrix_types[x[1]][x[2]] = None)
                         <=> (ENABLE_HOLE_PIXEL /\ x \in CornerCells)
              /\ \A x \in CornerCells :
                     filled.matrix_bits[x[1]][x[2]]
                         = IF ENABLE_HOLE_PIXEL THEN 0 ELSE matrix[x[1]][x[2]]

C18_Witness ==
    /\ pc = "decoded"
    /\ ENABLE_HOLE_PIXEL
    /\ matrix = single_pixel_matrix(25, 47)
    /\ filled.matrix_bits = ZeroMatrix
    /\ filled.matrix_types[25][47] = None
    /\ Len(bit_queues[<<1, TYPE_10>>]) = 5

\* C19: frame/payload equivalence.  A body decoded from its frame gives the
\* queues that the raw payload of the same address and body gives.
C19_FramePayloadEquivalence ==
    (/\ pc = "batch_decoded"
     /\ Len(in_frames) = Len(payloads)
     /\ \A n \in 1..Len(payloads) : in_frames[n] = FrameOf(payloads[n]))
        => queues_frames = queues_payloads

C19_Witness ==
    /\ pc = "batch_decoded"
    /\ payloads = << <<8>> \o GroupA \o GroupB \o PartialGroup >>
    /\ in_frames = << FrameOf(payloads[1]) >>
    /\ queues_frames = queues_payloads
    /\ DOMAIN queues_frames = {<<8, TYPE_90>>, <<8, TYPE_10>>}

\* C20: merge in input order.  In the merged queues the bits of each
\* (address, type) appear in the order of the input lines, frames and raw
\* payloads alike.
C20_MergeInInputOrder ==
    pc = "merged" => DecodesAs(bit_queues, UnitsOf(in_lines))

UnknownSegment == pixel.segment_name \notin SegmentNames

\* The request names a segment and a cell that lies outside the 26x48 panel.
OutsidePanel ==
    /\ ~UnknownSegment
    /\ LET seg == SEGMENTS[CHOOSE n \in 1..Len(SEGMENTS) :
                               SEGMENTS[n].name = pixel.segment_name]
           global_row == seg.row_start + pixel.seg_row
           global_col == seg.col_start + pixel.seg_col
       IN  \/ global_row < 0 \/ global_row >= MATRIX_ROWS
           \/ global_col < 0 \/ global_col >= MATRIX_COLS

HoleTarget ==
    ENABLE_HOLE_PIXEL /\ ~UnknownSegment /\ pixel.seg_row = 12 /\ pixel.seg_col = 23

\* C13: calibration on invalid coordinates.  For a HOLE target
\* get_pixel_info reports type hole, address None, bit_index -1 and
\* generate_single_pixel_command returns the empty payload; for an unknown
\* segment or a cell outside the panel both return an empty result.
C13_InvalidCoordinates ==
    pc = "informed"
        => /\ HoleTarget
                 => /\ calib.cmd = <<>>
                    /\ DOMAIN calib.info = {"type", "address", "bit_index"}
                    /\ calib.info.bit_index = -1
                    /\ calib.info.address = None
                    /\ calib.info.type = "hole"
           /\ (UnknownSegment \/ OutsidePanel)
                 => /\ calib.cmd = <<>>
                    /\ DOMAIN calib.info = {}

\* C14: payload from bit index.  For bit_index >= 0 the command carries the
\* address, has exactly one data bit set, and that bit is bit
\* (bit_index mod 8) of data byte ((bit_index mod 40) div 8) of group
\* (bit_index div 40); for bit_index < 0 the command is empty.
C14_CommandFromBitIndex ==
    pc = "index_command"
        => IF pixel.bit_index < 0 THEN calib.cmd = <<>>
           ELSE LET n == 6 * (pixel.bit_index \div GROUP_BITS)
                         + ((pixel.bit_index % GROUP_BITS) \div 8) + 3
                IN  /\ Len(calib.cmd) >= n
                    /\ calib.cmd[1] = pixel.addr
                    /\ DataBitsSet(calib.cmd) = 1
                    /\ BitOfByte(calib.cmd[n], pixel.bit_index % 8) = 1

\* C15: blank payloads.  Encoding the all-zero matrix gives one payload per
\* address, addresses 8 down to 1, every payload with its address and group
\* headers and with all data bytes 0.
C15_BlankPayloads ==
    pc = "blank"
        => /\ [n \in 1..Len(calib.blank) |-> calib.blank[n][1]] = <<8, 7, 6, 5, 4, 3, 2, 1>>
           /\ \A n \in 1..Len(calib.blank) :
                  LET p == calib.blank[n]
                  IN  /\ (Len(p) - 1) % 6 = 0
                      /\ NumGroups(p) >= 1
                      /\ HeaderBytes(p) \subseteq {TYPE_90, TYPE_10}
                      /\ DataBitsSet(p) = 0

C15_Witness ==
    /\ pc = "blank"
    /\ ENABLE_HOLE_PIXEL
    /\ Len(calib.blank) = 8
    /\ calib.blank[8] = [n \in 1..25 |-> IF n = 1 THEN 1
                                       ELSE IF (n - 2) % 6 = 0 THEN TYPE_10 ELSE 0]
\* Bit k of the XOR of the bytes of s: the parity of the bytes that have it.
XorBit(s, k) == Cardinality({ i \in 1..Len(s) : BitOfByte(s[i], k) = 1 }) % 2

\* C21: frame wrapping.  The frame is 0x7E, 0xA0 | (display_addr & 0x0F),
\* the payload, the checksum and 0x7E, four bytes longer than the payload;
\* the checksum is the XOR of the command byte and the payload bytes, so the
\* bytes between the two delimiters XOR to 0.
C21_FrameWrapping ==
    pc = "wrapped"
        => LET payload == call_in.payload
               n       == Len(payload)
               command == 160 + (call_in.display_address % 16)
           IN  /\ Len(call_out) = n + 4
               /\ call_out[1] = 126
               /\ call_out[2] = command
               /\ Slice(call_out, 2, n + 2) = payload
               /\ call_out[n + 4] = 126
               /\ call_out[n + 3] \in 0..255
               /\ \A k \in 0..7 :
                      /\ BitOfByte(call_out[n + 3], k) = XorBit(<<command>> \o payload, k)
                      /\ XorBit(Slice(call_out, 1, n + 3), k) = 0

C21_Witness ==
    /\ pc = "wrapped"
    /\ call_in.display_address = 37
    /\ call_in.payload = <<126, 1, 165>>
    /\ call_out = <<126, 165, 126, 1, 165, 127, 126>>

\* The bus commands a complete send of the batch consists of.
ExpectedBus(batch) ==
    (<<[command |-> CMD_QUERY, payload |-> <<>>],
       [command |-> CMD_PRE_BITMAP_FLIPDOT, payload |-> <<8, 4>>]>>
     \o [i \in 1..Len(batch) |->
            [command |-> CMD_COLUMN_DATA_FLIPDOT,
             payload |-> [j \in 1..Len(batch[i]) |-> batch[i][j] % 256]]])
    \o <<[command |-> CMD_QUERY, payload |-> <<>>]>>

DataOf(c) == CompactCommand(c.first, c.n)

\* C24: load normalisation.  A command held as a legacy full payload comes
\* out as its compact data bytes, a command that is already compact comes
\* out unchanged, and normalising twice gives what normalising once gave.
C24_LoadNormalisation ==
    /\ pc \in {"normalized", "normalized_twice"}
           => LET px == call_out[1].pixels[1]
              IN  /\ px.generated_command = DataOf(call_in.generated)
                  /\ px.assigned_command
                         = IF call_in.assigned.form = "none" THEN <<>>
                           ELSE DataOf(call_in.assigned)
    /\ pc = "normalized_twice" => call_out[2] = call_out[1]

\* The same for commands of at most four chunks, which is what a 156-bit
\* queue packs into.
C24_UpToFourChunks ==
    (pc \in {"normalized", "normalized_twice"} /\ call_in.generated.n <= 4)
        => C24_LoadNormalisation

\* Position in stream of its k-th 0x7E byte.
DelimiterAt(stream, k) ==
    CHOOSE i \in 1..Len(stream) :
        /\ stream[i] = 126
        /\ Cardinality({ j \in 1..i : stream[j] = 126 }) = k

\* C26: frame splitting.  There are floor(count of 0x7E / 2) frames; the
\* j-th frame is the stretch of the stream from its (2j-1)-th 0x7E to its
\* 2j-th, so it starts and ends with 0x7E and holds no other, the frames are
\* in stream order, bytes outside a frame are dropped and a frame left open
\* at the end is discarded.
C26_FrameSplitting ==
    pc = "split"
        => LET delimiters == Cardinality({ i \in 1..Len(call_in) : call_in[i] = 126 })
           IN  /\ Len(call_out) = delimiters \div 2
               /\ \A j \in 1..Len(call_out) :
                      /\ call_out[j] = SubSeq(call_in, DelimiterAt(call_in, 2 * j - 1),
                                              DelimiterAt(call_in, 2 * j))
                      /\ Len(call_out[j]) >= 2
                      /\ call_out[j][1] = 126
                      /\ call_out[j][Len(call_out[j])] = 126
                      /\ \A i \in 2..(Len(call_out[j]) - 1) : call_out[j][i] # 126

C26_Witness ==
    /\ pc = "split"
    /\ call_in = <<0, 126, 129, 126, 0, 126>>
    /\ call_out = << <<126, 129, 126>> >>

\* C25: purity of the core.  fill_matrix_from_segments leaves the queue map
\* it was given unchanged, and a second call on the same map returns what
\* the first call returned.
C25_CorePurity ==
    /\ pc \in {"filled", "filled_again"} => bit_queues = queues
    /\ pc = "filled_again" => call_out = filled

\* q without its first n elements.
Drop(q, n) == SubSeq(q, n + 1, Len(q))

\* Number of ones among q[lo..hi].
OnesBetween(q, lo, hi) == Cardinality({ i \in lo..Min(hi, Len(q)) : q[i] = 1 })

\* C25 as amended: fill_matrix_from_segments consumes the map it is given.
\* After a call every segment queue exists and has lost the bits the segment
\* took off its front; a second call on the same map decodes what was left:
\* its matrix holds, for every queue, the bits that follow the ones the first
\* call used.
C25_DecodeConsumesQueues ==
    /\ pc \in {"filled", "filled_again"}
           => LET calls == IF pc = "filled" THEN 1 ELSE 2
              IN  /\ DOMAIN bit_queues = DOMAIN queues \cup AllSegmentKeys
                  /\ \A key \in AllSegmentKeys :
                         bit_queues[key] = Drop(QueueOf(queues, key), calls * TypeCount(key[2]))
    /\ pc = "filled_again"
           => /\ call_out.matrix_types = filled.matrix_types
              /\ \A x \in LitCells(call_out.matrix_bits) :
                     /\ TypeOfCell(x) # None
                     /\ BitAt(QueueOf(queues, KeyOfCell(x)),
                              TypeCount(TypeOfCell(x)) + ScanRank(x) + 1) = 1
              /\ \A key \in AllSegmentKeys :
                     Cardinality({ x \in LitCells(call_out.matrix_bits) : KeyOfCell(x) = key })
                         = OnesBetween(QueueOf(queues, key), TypeCount(key[2]) + 1,
                                       2 * TypeCount(key[2]))

C25_Witness ==
    /\ pc = "filled_again"
    /\ queues = UniformQueues(1, 4 * GROUP_BITS, 4 * GROUP_BITS)
    /\ Cardinality(LitCells(filled.matrix_bits)) = 8 * TypeCount(TYPE_90) - (IF ENABLE_HOLE_PIXEL THEN 4 ELSE 0)
    /\ call_out.matrix_bits[0][0] = 1
    /\ call_out.matrix_bits[0][2] = 1
    /\ call_out # filled
    /\ bit_queues = UniformQueues(0, 0, 0)

\* C27: a single-pixel payload stays in its segment.  Whenever
\* generate_single_pixel_command returns a non-empty raw payload, its address
\* byte is addr_90 or addr_10 of the segment that was named.
C27_PayloadStaysInSegment ==
    (pc \in {"generated", "informed"} /\ calib.cmd # <<>>)
        => \E n \in 1..Len(SEGMENTS) :
               /\ SEGMENTS[n].name = pixel.segment_name
               /\ calib.cmd[1] \in {SEGMENTS[n].addr_90, SEGMENTS[n].addr_10}

\* The same for coordinates inside the 13x24 segment.
C27_InsideSegment ==
    (pc \in {"generated", "informed"} /\ pixel.seg_row \in 0..(SEG_ROWS - 1)
                                      /\ pixel.seg_col \in 0..(SEG_COLS - 1))
        => C27_PayloadStaysInSegment

\* C28: remap invariant of the calibration state.  After any sequence of
\* handlers on a newly initialised mapping every pixel with remap_active set
\* has a remap command, no pixel has more than one, and every status is
\* unknown, tested_ok or tested_fail.
C28_RemapInvariant ==
    pc = "window"
        => \A n \in 1..Len(window.pixels) :
               /\ window.pixels[n].remap_active => window.pixels[n].remap_commands # <<>>
               /\ Len(window.pixels[n].remap_commands) <= 1
               /\ window.pixels[n].status \in {"unknown", "tested_ok", "tested_fail"}

C28_Witness ==
    /\ pc = "window"
    /\ call_in.handler = "on_test_command"
    /\ window.pixels[1].remap_active
    /\ Len(window.pixels[1].remap_commands) = 1
    /\ window.pixels[1].status = "tested_fail"
    /\ window.mapping_toggle

\* The mode that follows mode in the cycle.
CycleNext(mode) ==
    CASE mode = "off" -> "fill"
      [] mode = "fill" -> "checker"
      [] mode = "checker" -> "checker_inv"
      [] mode = "checker_inv" -> "off"

\* C29: pattern mode follows the sends.  pattern_mode starts at off; a step
\* changes it only when it is on_pattern_toggle with the payloads built and
\* send_payload_batch returning True, and then to the next mode of the cycle;
\* every other step, a failed toggle included, leaves it as it was.
C29_PatternModeFollowsSends ==
    /\ []((pc = "window" /\ call_in.handler = "init_new_mapping")
              => window.pattern_mode = "off")
    /\ [][pc = "window"
              => window'.pattern_mode
                     = IF call_in'.handler = "on_pattern_toggle" /\ call_out'.sent
                       THEN CycleNext(window.pattern_mode)
                       ELSE window.pattern_mode]_vars

C29_Witness ==
    /\ pc = "window"
    /\ call_in.handler = "on_pattern_toggle"
    /\ ~call_out.sent
    /\ call_out.payloads # <<>>
    /\ window.pattern_mode = "checker"
    /\ window.events = 3

\* C30: test batch composition.  For an active payload whose address is one
\* of the blank template's, the batch has the template's length and address
\* sequence (8 down to 1) and equals the template except at the active
\* address, where it holds the active payload; the cached template stays
\* what generate_blank_payloads returned.
C30_TestBatchComposition ==
    pc = "window"
        => LET blank == window.logic_blank
               active == call_in.arg
               batch == call_out.payloads
           IN  /\ window.template_cached => window.blank_payload_template = blank
               /\ [n \in 1..Len(blank) |-> blank[n][1]] = <<8, 7, 6, 5, 4, 3, 2, 1>>
               /\ (/\ call_in.handler = "on_test_command"
                   /\ \E i \in 1..Len(blank) : blank[i][1] = active[1])
                      => /\ Len(batch) = Len(blank)
                         /\ \A i \in 1..Len(blank) :
                                /\ batch[i][1] = blank[i][1]
                                /\ batch[i] = IF blank[i][1] = active[1] THEN active
                                              ELSE blank[i]

C30_Witness ==
    /\ pc = "window"
    /\ call_in.handler = "on_test_command"
    /\ call_in.arg[1] = 7
    /\ call_out.sent
    /\ call_out.payloads[2] = call_in.arg
    /\ call_out.payloads[2] # window.logic_blank[2]
    /\ window.template_cached
    /\ window.events = 4

\* The payload a generated command carries: the command itself, or what lies
\* between the frame header and the checksum of an A5 frame.
PayloadOf(cmd, frame_format) ==
    IF frame_format = "A5-frame" /\ Len(cmd) >= 4 THEN SubSeq(cmd, 3, Len(cmd) - 2) ELSE cmd

\* The 5-byte data chunks of a payload [address, (type, 5 data bytes)...],
\* concatenated.
DataChunksOf(payload) ==
    LET body == IF payload = <<>> THEN 0 ELSE Len(payload) - 1
        count == 5 * (body \div 6) + (IF body % 6 = 0 THEN 0 ELSE (body % 6) - 1)
    IN  [k \in 1..count |-> payload[6 * ((k - 1) \div 5) + ((k - 1) % 5) + 3]]

\* The stored commands of the pixels written by the last handler are the data
\* chunks of the payload generated for them.
CompactStored ==
    /\ call_in.handler = "init_new_mapping"
           => \A n \in 1..Len(window.pixels) :
                  LET px == window.pixels[n]
                      expected == DataChunksOf(PayloadOf(
                          generate_single_pixel_command(window.segment_name, px.row, px.col,
                                                        window.frame_format),
                          window.frame_format))
                  IN  px.generated_command = expected /\ px.assigned_command = expected
    /\ call_in.handler = "on_bit_index_changed"
           => LET n == get_pixel_data(window, window.current_pixel[1], window.current_pixel[2])
                  px == window.pixels[n]
                  expected == DataChunksOf(PayloadOf(
                      generate_command_from_bit_index(window.segment_name, px.address,
                                                      px.type_code, call_in.arg[1],
                                                      window.frame_format),
                      window.frame_format))
              IN  px.generated_command = expected /\ px.assigned_command = expected

\* C23: compact stored commands.  For every pixel of a newly initialised
\* mapping and after every manual bit-index change, for raw-payload and for
\* A5-frame, generated_command and assigned_command are the concatenated
\* 5-byte data chunks of the pixel's generated payload, with no address,
\* group-header, delimiter, command or checksum byte.
C23_CompactStoredCommands ==
    pc = "window" => CompactStored

\* The same statement for frame_format raw-payload alone.
C23_RawPayloadCompact ==
    (pc = "window" /\ window.frame_format = "raw-payload") => CompactStored

====
